---- MODULE Spec2Model ----
(***************************************************************************)
(* A model of the gonesem NES emulator core: the 6502 interpreter of       *)
(* nes/cpu/cpu.go with its 256-entry instruction table, and the system     *)
(* clock of nes/nes.go that steps the PPU and the CPU.                     *)
(*                                                                         *)
(* Integers keep the width Go gives them: uint8 values are reduced modulo  *)
(* 256 and uint16 values modulo 65536 wherever the code's arithmetic can   *)
(* leave the range.  The 64 KiB RAM array of the CPU is kept as the image  *)
(* loaded into it plus the finite map of the cells that differ from it.    *)
(***************************************************************************)
EXTENDS Integers, Sequences, FiniteSets, TLC

VARIABLES
  cpu,        \* the CPU struct: A, X, Y, PC, SP, SR, cycles, TotalCycles, RAM
  image,      \* which memory image cpu.RAM was filled with (0: Go's zero value)
  last,       \* the most recent call on the CPU, with the CPU state before it
  run,        \* Clock calls since the latest instruction fetch, and its cost
  fetches,    \* instructions fetched so far
  interrupts, \* NMI, IRQ and Reset calls so far
  calls,      \* Clock, NMI, IRQ and Reset calls so far
  nes,        \* the NES struct: TotalCycles (master ticks)
  ppu,        \* the PPU struct: ctrl, status, scanline, cycle, EmitNMI
  ticks,      \* calls of PPU.Clock, of CPU.Clock (since the latest Reset) and of
              \* CPU.NMI by NES.Clock, and bus calls
  cart        \* the Cartridge struct: pgrBanks, chrBanks, pgrMemory, chrMemory

vars == <<cpu, image, last, run, fetches, interrupts, calls, nes, ppu, ticks, cart>>

(***************************************************************************)
(* Bounds of the model.                                                    *)
(***************************************************************************)
MaxInstr == 1        \* instructions fetched in one run of Spec
MaxIntInstr == 2     \* instructions fetched in one run of SpecInt
MaxInterrupts == 1   \* NMI, IRQ and Reset calls in one run of SpecInt
MaxCalls == 10       \* CPU calls in one run of SpecInt

(***************************************************************************)
(* Bitwise operators on naturals (Go's &, | and ^).                        *)
(***************************************************************************)
RECURSIVE BitAnd(_, _)
BitAnd(a, b) ==
  IF a = 0 \/ b = 0 THEN 0
  ELSE (a % 2) * (b % 2) + 2 * BitAnd(a \div 2, b \div 2)

RECURSIVE BitOr(_, _)
BitOr(a, b) ==
  IF a = 0 THEN b
  ELSE IF b = 0 THEN a
  ELSE (IF a % 2 = 1 \/ b % 2 = 1 THEN 1 ELSE 0) + 2 * BitOr(a \div 2, b \div 2)

RECURSIVE BitXor(_, _)
BitXor(a, b) ==
  IF a = 0 THEN b
  ELSE IF b = 0 THEN a
  ELSE (IF a % 2 = b % 2 THEN 0 ELSE 1) + 2 * BitXor(a \div 2, b \div 2)

U8(v) == v % 256
U16(v) == v % 65536

\* util.Btou8
Btou8(b) == IF b THEN 1 ELSE 0

(***************************************************************************)
(* Constants of nes/cpu/cpu.go.                                            *)
(***************************************************************************)
StatusCarry == 1
StatusZero == 2
StatusInterrupt == 4
StatusDecimal == 8
StatusBreak == 16
StatusUnused == 32
StatusOverflow == 64
StatusNegative == 128

StackPage == 256
StackReset == 253

ResetVector == 65532
IRQVector == 65534
NMIVector == 65530

AddressingModeImplied == 0
AddressingModeAccumulator == 1
AddressingModeImmediate == 2
AddressingModeZeroPage == 3
AddressingModeZeroPageX == 4
AddressingModeZeroPageY == 5
AddressingModeRelative == 6
AddressingModeAbsolute == 7
AddressingModeAbsoluteX == 8
AddressingModeAbsoluteY == 9
AddressingModeIndirect == 10
AddressingModeIndirectX == 11
AddressingModeIndirectY == 12

(***************************************************************************)
(* The instruction table: Instructions[opcode + 1] is the descriptor of     *)
(* opcode (TLA+ sequences start at 1).                                     *)
(***************************************************************************)
Ins(operation, Mnemonic, AddressingMode, Size, Cycles, AdditionalCycles) ==
  [operation |-> operation, Mnemonic |-> Mnemonic, AddressingMode |-> AddressingMode,
   Size |-> Size, Cycles |-> Cycles, AdditionalCycles |-> AdditionalCycles]

Instructions == <<
  Ins("brk", "BRK", AddressingModeImplied, 1, 7, 0),           \* 0x00
  Ins("ora", "ORA", AddressingModeIndirectX, 2, 6, 0),         \* 0x01
  Ins("nop", "STP", AddressingModeImplied, 1, 0, 0),           \* 0x02
  Ins("slo", "SLO", AddressingModeIndirectX, 2, 8, 0),         \* 0x03
  Ins("nop", "NOP", AddressingModeZeroPage, 2, 3, 0),          \* 0x04
  Ins("ora", "ORA", AddressingModeZeroPage, 2, 3, 0),          \* 0x05
  Ins("asl", "ASL", AddressingModeZeroPage, 2, 5, 0),          \* 0x06
  Ins("slo", "SLO", AddressingModeZeroPage, 2, 5, 0),          \* 0x07
  Ins("php", "PHP", AddressingModeImplied, 1, 3, 0),           \* 0x08
  Ins("ora", "ORA", AddressingModeImmediate, 2, 2, 0),         \* 0x09
  Ins("asl", "ASL", AddressingModeAccumulator, 1, 2, 0),       \* 0x0A
  Ins("anc", "ANC", AddressingModeImmediate, 2, 2, 0),         \* 0x0B
  Ins("nop", "NOP", AddressingModeAbsolute, 3, 4, 0),          \* 0x0C
  Ins("ora", "ORA", AddressingModeAbsolute, 3, 4, 0),          \* 0x0D
  Ins("asl", "ASL", AddressingModeAbsolute, 3, 6, 0),          \* 0x0E
  Ins("slo", "SLO", AddressingModeAbsolute, 3, 6, 0),          \* 0x0F
  Ins("bpl", "BPL", AddressingModeRelative, 2, 2, 0),          \* 0x10
  Ins("ora", "ORA", AddressingModeIndirectY, 2, 5, 1),         \* 0x11
  Ins("nop", "STP", AddressingModeImplied, 1, 0, 0),           \* 0x12
  Ins("slo", "SLO", AddressingModeIndirectY, 2, 8, 0),         \* 0x13
  Ins("nop", "NOP", AddressingModeZeroPageX, 2, 4, 0),         \* 0x14
  Ins("ora", "ORA", AddressingModeZeroPageX, 2, 4, 0),         \* 0x15
  Ins("asl", "ASL", AddressingModeZeroPageX, 2, 6, 0),         \* 0x16
  Ins("slo", "SLO", AddressingModeZeroPageX, 2, 6, 0),         \* 0x17
  Ins("clc", "CLC", AddressingModeImplied, 1, 2, 0),           \* 0x18
  Ins("ora", "ORA", AddressingModeAbsoluteY, 3, 4, 1),         \* 0x19
  Ins("nop", "NOP", AddressingModeImplied, 1, 2, 0),           \* 0x1A
  Ins("slo", "SLO", AddressingModeAbsoluteY, 3, 7, 0),         \* 0x1B
  Ins("nop", "NOP", AddressingModeAbsoluteX, 3, 4, 1),         \* 0x1C
  Ins("ora", "ORA", AddressingModeAbsoluteX, 3, 4, 1),         \* 0x1D
  Ins("asl", "ASL", AddressingModeAbsoluteX, 3, 7, 0),         \* 0x1E
  Ins("slo", "SLO", AddressingModeAbsoluteX, 3, 7, 0),         \* 0x1F
  Ins("jsr", "JSR", AddressingModeAbsolute, 3, 6, 0),          \* 0x20
  Ins("and", "AND", AddressingModeIndirectX, 2, 6, 0),         \* 0x21
  Ins("nop", "STP", AddressingModeImplied, 1, 0, 0),           \* 0x22
  Ins("rla", "RLA", AddressingModeIndirectX, 2, 8, 0),         \* 0x23
  Ins("bit", "BIT", AddressingModeZeroPage, 2, 3, 0),          \* 0x24
  Ins("and", "AND", AddressingModeZeroPage, 2, 3, 0),          \* 0x25
  Ins("rol", "ROL", AddressingModeZeroPage, 2, 5, 0),          \* 0x26
  Ins("rla", "RLA", AddressingModeZeroPage, 2, 5, 0),          \* 0x27
  Ins("plp", "PLP", AddressingModeImplied, 1, 4, 0),           \* 0x28
  Ins("and", "AND", AddressingModeImmediate, 2, 2, 0),         \* 0x29
  Ins("rol", "ROL", AddressingModeAccumulator, 1, 2, 0),       \* 0x2A
  Ins("anc", "ANC", AddressingModeImmediate, 2, 2, 0),         \* 0x2B
  Ins("bit", "BIT", AddressingModeAbsolute, 3, 4, 0),          \* 0x2C
  Ins("and", "AND", AddressingModeAbsolute, 3, 4, 0),          \* 0x2D
  Ins("rol", "ROL", AddressingModeAbsolute, 3, 6, 0),          \* 0x2E
  Ins("rla", "RLA", AddressingModeAbsolute, 3, 6, 0),          \* 0x2F
  Ins("bmi", "BMI", AddressingModeRelative, 2, 2, 0),          \* 0x30
  Ins("and", "AND", AddressingModeIndirectY, 2, 5, 1),         \* 0x31
  Ins("nop", "STP", AddressingModeImplied, 1, 0, 0),           \* 0x32
  Ins("rla", "RLA", AddressingModeIndirectY, 2, 8, 0),         \* 0x33
  Ins("nop", "NOP", AddressingModeZeroPageX, 2, 4, 0),         \* 0x34
  Ins("and", "AND", AddressingModeZeroPageX, 2, 4, 0),         \* 0x35
  Ins("rol", "ROL", AddressingModeZeroPageX, 2, 6, 0),         \* 0x36
  Ins("rla", "RLA", AddressingModeZeroPageX, 2, 6, 0),         \* 0x37
  Ins("sec", "SEC", AddressingModeImplied, 1, 2, 0),           \* 0x38
  Ins("and", "AND", AddressingModeAbsoluteY, 3, 4, 1),         \* 0x39
  Ins("nop", "NOP", AddressingModeImplied, 1, 2, 0),           \* 0x3A
  Ins("rla", "RLA", AddressingModeAbsoluteY, 3, 7, 0),         \* 0x3B
  Ins("nop", "NOP", AddressingModeAbsoluteX, 3, 4, 1),         \* 0x3C
  Ins("and", "AND", AddressingModeAbsoluteX, 3, 4, 1),         \* 0x3D
  Ins("rol", "ROL", AddressingModeAbsoluteX, 3, 7, 0),         \* 0x3E
  Ins("rla", "RLA", AddressingModeAbsoluteX, 3, 7, 0),         \* 0x3F
  Ins("rti", "RTI", AddressingModeImplied, 1, 6, 0),           \* 0x40
  Ins("eor", "EOR", AddressingModeIndirectX, 2, 6, 0),         \* 0x41
  Ins("nop", "STP", AddressingModeImplied, 1, 0, 0),           \* 0x42
  Ins("sre", "SRE", AddressingModeIndirectX, 2, 8, 0),         \* 0x43
  Ins("nop", "NOP", AddressingModeZeroPage, 2, 3, 0),          \* 0x44
  Ins("eor", "EOR", AddressingModeZeroPage, 2, 3, 0),          \* 0x45
  Ins("lsr", "LSR", AddressingModeZeroPage, 2, 5, 0),          \* 0x46
  Ins("sre", "SRE", AddressingModeZeroPage, 2, 5, 0),          \* 0x47
  Ins("pha", "PHA", AddressingModeImplied, 1, 3, 0),           \* 0x48
  Ins("eor", "EOR", AddressingModeImmediate, 2, 2, 0),         \* 0x49
  Ins("lsr", "LSR", AddressingModeAccumulator, 1, 2, 0),       \* 0x4A
  Ins("alr", "ALR", AddressingModeImmediate, 2, 2, 0),         \* 0x4B
  Ins("jmp", "JMP", AddressingModeAbsolute, 3, 3, 0),          \* 0x4C
  Ins("eor", "EOR", AddressingModeAbsolute, 3, 4, 0),          \* 0x4D
  Ins("lsr", "LSR", AddressingModeAbsolute, 3, 6, 0),          \* 0x4E
  Ins("sre", "SRE", AddressingModeAbsolute, 3, 6, 0),          \* 0x4F
  Ins("bvc", "BVC", AddressingModeRelative, 2, 2, 0),          \* 0x50
  Ins("eor", "EOR", AddressingModeIndirectY, 2, 5, 1),         \* 0x51
  Ins("nop", "STP", AddressingModeImplied, 1, 0, 0),           \* 0x52
  Ins("sre", "SRE", AddressingModeIndirectY, 2, 8, 0),         \* 0x53
  Ins("nop", "NOP", AddressingModeZeroPageX, 2, 4, 0),         \* 0x54
  Ins("eor", "EOR", AddressingModeZeroPageX, 2, 4, 0),         \* 0x55
  Ins("lsr", "LSR", AddressingModeZeroPageX, 2, 6, 0),         \* 0x56
  Ins("sre", "SRE", AddressingModeZeroPageX, 2, 6, 0),         \* 0x57
  Ins("cli", "CLI", AddressingModeImplied, 1, 2, 0),           \* 0x58
  Ins("eor", "EOR", AddressingModeAbsoluteY, 3, 4, 1),         \* 0x59
  Ins("nop", "NOP", AddressingModeImplied, 1, 2, 0),           \* 0x5A
  Ins("sre", "SRE", AddressingModeAbsoluteY, 3, 7, 0),         \* 0x5B
  Ins("nop", "NOP", AddressingModeAbsoluteX, 3, 4, 1),         \* 0x5C
  Ins("eor", "EOR", AddressingModeAbsoluteX, 3, 4, 1),         \* 0x5D
  Ins("lsr", "LSR", AddressingModeAbsoluteX, 3, 7, 0),         \* 0x5E
  Ins("sre", "SRE", AddressingModeAbsoluteX, 3, 7, 0),         \* 0x5F
  Ins("rts", "RTS", AddressingModeImplied, 1, 6, 0),           \* 0x60
  Ins("adc", "ADC", AddressingModeIndirectX, 2, 6, 0),         \* 0x61
  Ins("nop", "STP", AddressingModeImplied, 1, 0, 0),           \* 0x62
  Ins("rra", "RRA", AddressingModeIndirectX, 2, 8, 0),         \* 0x63
  Ins("nop", "NOP", AddressingModeZeroPage, 2, 3, 0),          \* 0x64
  Ins("adc", "ADC", AddressingModeZeroPage, 2, 3, 0),          \* 0x65
  Ins("ror", "ROR", AddressingModeZeroPage, 2, 5, 0),          \* 0x66
  Ins("rra", "RRA", AddressingModeZeroPage, 2, 5, 0),          \* 0x67
  Ins("pla", "PLA", AddressingModeImplied, 1, 4, 0),           \* 0x68
  Ins("adc", "ADC", AddressingModeImmediate, 2, 2, 0),         \* 0x69
  Ins("ror", "ROR", AddressingModeAccumulator, 1, 2, 0),       \* 0x6A
  Ins("arr", "ARR", AddressingModeImmediate, 2, 2, 0),         \* 0x6B
  Ins("jmp", "JMP", AddressingModeIndirect, 3, 5, 0),          \* 0x6C
  Ins("adc", "ADC", AddressingModeAbsolute, 3, 4, 0),          \* 0x6D
  Ins("ror", "ROR", AddressingModeAbsolute, 3, 6, 0),          \* 0x6E
  Ins("rra", "RRA", AddressingModeAbsolute, 3, 6, 0),          \* 0x6F
  Ins("bvs", "BVS", AddressingModeRelative, 2, 2, 0),          \* 0x70
  Ins("adc", "ADC", AddressingModeIndirectY, 2, 5, 1),         \* 0x71
  Ins("nop", "STP", AddressingModeImplied, 1, 0, 0),           \* 0x72
  Ins("rra", "RRA", AddressingModeIndirectY, 2, 8, 0),         \* 0x73
  Ins("nop", "NOP", AddressingModeZeroPageX, 2, 4, 0),         \* 0x74
  Ins("adc", "ADC", AddressingModeZeroPageX, 2, 4, 0),         \* 0x75
  Ins("ror", "ROR", AddressingModeZeroPageX, 2, 6, 0),         \* 0x76
  Ins("rra", "RRA", AddressingModeZeroPageX, 2, 6, 0),         \* 0x77
  Ins("sei", "SEI", AddressingModeImplied, 1, 2, 0),           \* 0x78
  Ins("adc", "ADC", AddressingModeAbsoluteY, 3, 4, 1),         \* 0x79
  Ins("nop", "NOP", AddressingModeImplied, 1, 2, 0),           \* 0x7A
  Ins("rra", "RRA", AddressingModeAbsoluteY, 3, 7, 0),         \* 0x7B
  Ins("nop", "NOP", AddressingModeAbsoluteX, 3, 4, 1),         \* 0x7C
  Ins("adc", "ADC", AddressingModeAbsoluteX, 3, 4, 1),         \* 0x7D
  Ins("ror", "ROR", AddressingModeAbsoluteX, 3, 7, 0),         \* 0x7E
  Ins("rra", "RRA", AddressingModeAbsoluteX, 3, 7, 0),         \* 0x7F
  Ins("nop", "NOP", AddressingModeImmediate, 2, 2, 0),         \* 0x80
  Ins("sta", "STA", AddressingModeIndirectX, 2, 6, 0),         \* 0x81
  Ins("nop", "NOP", AddressingModeImmediate, 2, 2, 0),         \* 0x82
  Ins("sax", "SAX", AddressingModeIndirectX, 2, 6, 0),         \* 0x83
  Ins("sty", "STY", AddressingModeZeroPage, 2, 3, 0),          \* 0x84
  Ins("sta", "STA", AddressingModeZeroPage, 2, 3, 0),          \* 0x85
  Ins("stx", "STX", AddressingModeZeroPage, 2, 3, 0),          \* 0x86
  Ins("sax", "SAX", AddressingModeZeroPage, 2, 3, 0),          \* 0x87
  Ins("dey", "DEY", AddressingModeImplied, 1, 2, 0),           \* 0x88
  Ins("nop", "NOP", AddressingModeImmediate, 2, 2, 0),         \* 0x89
  Ins("txa", "TXA", AddressingModeImplied, 1, 2, 0),           \* 0x8A
  Ins("xxx", "XAA", AddressingModeImplied, 0, 0, 0),           \* 0x8B
  Ins("sty", "STY", AddressingModeAbsolute, 3, 4, 0),          \* 0x8C
  Ins("sta", "STA", AddressingModeAbsolute, 3, 4, 0),          \* 0x8D
  Ins("stx", "STX", AddressingModeAbsolute, 3, 4, 0),          \* 0x8E
  Ins("sax", "SAX", AddressingModeAbsolute, 3, 4, 0),          \* 0x8F
  Ins("bcc", "BCC", AddressingModeRelative, 2, 2, 0),          \* 0x90
  Ins("sta", "STA", AddressingModeIndirectY, 2, 6, 0),         \* 0x91
  Ins("nop", "STP", AddressingModeImplied, 1, 0, 0),           \* 0x92
  Ins("ahx", "AHX", AddressingModeIndirectY, 2, 6, 0),         \* 0x93
  Ins("sty", "STY", AddressingModeZeroPageX, 2, 4, 0),         \* 0x94
  Ins("sta", "STA", AddressingModeZeroPageX, 2, 4, 0),         \* 0x95
  Ins("stx", "STX", AddressingModeZeroPageY, 2, 4, 0),         \* 0x96
  Ins("sax", "SAX", AddressingModeZeroPageY, 2, 4, 0),         \* 0x97
  Ins("tya", "TYA", AddressingModeImplied, 1, 2, 0),           \* 0x98
  Ins("sta", "STA", AddressingModeAbsoluteY, 3, 5, 0),         \* 0x99
  Ins("txs", "TXS", AddressingModeImplied, 1, 2, 0),           \* 0x9A
  Ins("tas", "TAS", AddressingModeAbsoluteY, 3, 5, 0),         \* 0x9B
  Ins("shy", "SHY", AddressingModeAbsoluteX, 3, 5, 0),         \* 0x9C
  Ins("sta", "STA", AddressingModeAbsoluteX, 3, 5, 0),         \* 0x9D
  Ins("shx", "SHX", AddressingModeAbsoluteY, 3, 5, 0),         \* 0x9E
  Ins("ahx", "AHX", AddressingModeAbsoluteY, 3, 5, 0),         \* 0x9F
  Ins("ldy", "LDY", AddressingModeImmediate, 2, 2, 0),         \* 0xA0
  Ins("lda", "LDA", AddressingModeIndirectX, 2, 6, 0),         \* 0xA1
  Ins("ldx", "LDX", AddressingModeImmediate, 2, 2, 0),         \* 0xA2
  Ins("lax", "LAX", AddressingModeIndirectX, 2, 6, 0),         \* 0xA3
  Ins("ldy", "LDY", AddressingModeZeroPage, 2, 3, 0),          \* 0xA4
  Ins("lda", "LDA", AddressingModeZeroPage, 2, 3, 0),          \* 0xA5
  Ins("ldx", "LDX", AddressingModeZeroPage, 2, 3, 0),          \* 0xA6
  Ins("lax", "LAX", AddressingModeZeroPage, 2, 3, 0),          \* 0xA7
  Ins("tay", "TAY", AddressingModeImplied, 1, 2, 0),           \* 0xA8
  Ins("lda", "LDA", AddressingModeImmediate, 2, 2, 0),         \* 0xA9
  Ins("tax", "TAX", AddressingModeImplied, 1, 2, 0),           \* 0xAA
  Ins("xxx", "LXA", AddressingModeImmediate, 2, 2, 0),         \* 0xAB
  Ins("ldy", "LDY", AddressingModeAbsolute, 3, 4, 0),          \* 0xAC
  Ins("lda", "LDA", AddressingModeAbsolute, 3, 4, 0),          \* 0xAD
  Ins("ldx", "LDX", AddressingModeAbsolute, 3, 4, 0),          \* 0xAE
  Ins("lax", "LAX", AddressingModeAbsolute, 3, 4, 0),          \* 0xAF
  Ins("bcs", "BCS", AddressingModeRelative, 2, 2, 0),          \* 0xB0
  Ins("lda", "LDA", AddressingModeIndirectY, 2, 5, 1),         \* 0xB1
  Ins("nop", "STP", AddressingModeImplied, 1, 0, 0),           \* 0xB2
  Ins("lax", "LAX", AddressingModeIndirectY, 2, 5, 1),         \* 0xB3
  Ins("ldy", "LDY", AddressingModeZeroPageX, 2, 4, 0),         \* 0xB4
  Ins("lda", "LDA", AddressingModeZeroPageX, 2, 4, 0),         \* 0xB5
  Ins("ldx", "LDX", AddressingModeZeroPageY, 2, 4, 0),         \* 0xB6
  Ins("lax", "LAX", AddressingModeZeroPageY, 2, 4, 0),         \* 0xB7
  Ins("clv", "CLV", AddressingModeImplied, 1, 2, 0),           \* 0xB8
  Ins("lda", "LDA", AddressingModeAbsoluteY, 3, 4, 1),         \* 0xB9
  Ins("tsx", "TSX", AddressingModeImplied, 1, 2, 0),           \* 0xBA
  Ins("las", "LAS", AddressingModeAbsoluteY, 3, 4, 1),         \* 0xBB
  Ins("ldy", "LDY", AddressingModeAbsoluteX, 3, 4, 1),         \* 0xBC
  Ins("lda", "LDA", AddressingModeAbsoluteX, 3, 4, 1),         \* 0xBD
  Ins("ldx", "LDX", AddressingModeAbsoluteY, 3, 4, 1),         \* 0xBE
  Ins("lax", "LAX", AddressingModeAbsoluteY, 3, 4, 1),         \* 0xBF
  Ins("cpy", "CPY", AddressingModeImmediate, 2, 2, 0),         \* 0xC0
  Ins("cmp", "CMP", AddressingModeIndirectX, 2, 6, 0),         \* 0xC1
  Ins("nop", "NOP", AddressingModeImmediate, 2, 2, 0),         \* 0xC2
  Ins("dcp", "DCP", AddressingModeIndirectX, 2, 8, 1),         \* 0xC3
  Ins("cpy", "CPY", AddressingModeZeroPage, 2, 3, 0),          \* 0xC4
  Ins("cmp", "CMP", AddressingModeZeroPage, 2, 3, 0),          \* 0xC5
  Ins("dec", "DEC", AddressingModeZeroPage, 2, 5, 0),          \* 0xC6
  Ins("dcp", "DCP", AddressingModeZeroPage, 2, 5, 0),          \* 0xC7
  Ins("iny", "INY", AddressingModeImplied, 1, 2, 0),           \* 0xC8
  Ins("cmp", "CMP", AddressingModeImmediate, 2, 2, 0),         \* 0xC9
  Ins("dex", "DEX", AddressingModeImplied, 1, 2, 0),           \* 0xCA
  Ins("axs", "AXS", AddressingModeImmediate, 2, 2, 0),         \* 0xCB
  Ins("cpy", "CPY", AddressingModeAbsolute, 3, 4, 0),          \* 0xCC
  Ins("cmp", "CMP", AddressingModeAbsolute, 3, 4, 0),          \* 0xCD
  Ins("dec", "DEC", AddressingModeAbsolute, 3, 6, 0),          \* 0xCE
  Ins("dcp", "DCP", AddressingModeAbsolute, 3, 6, 0),          \* 0xCF
  Ins("bne", "BNE", AddressingModeRelative, 2, 2, 0),          \* 0xD0
  Ins("cmp", "CMP", AddressingModeIndirectY, 2, 5, 1),         \* 0xD1
  Ins("nop", "STP", AddressingModeImplied, 1, 0, 0),           \* 0xD2
  Ins("dcp", "DCP", AddressingModeIndirectY, 2, 8, 0),         \* 0xD3
  Ins("nop", "NOP", AddressingModeZeroPageX, 2, 4, 0),         \* 0xD4
  Ins("cmp", "CMP", AddressingModeZeroPageX, 2, 4, 0),         \* 0xD5
  Ins("dec", "DEC", AddressingModeZeroPageX, 2, 6, 0),         \* 0xD6
  Ins("dcp", "DCP", AddressingModeZeroPageX, 2, 6, 0),         \* 0xD7
  Ins("cld", "CLD", AddressingModeImplied, 1, 2, 0),           \* 0xD8
  Ins("cmp", "CMP", AddressingModeAbsoluteY, 3, 4, 1),         \* 0xD9
  Ins("nop", "NOP", AddressingModeImplied, 1, 2, 0),           \* 0xDA
  Ins("dcp", "DCP", AddressingModeAbsoluteY, 3, 7, 0),         \* 0xDB
  Ins("nop", "NOP", AddressingModeAbsoluteX, 3, 4, 1),         \* 0xDC
  Ins("cmp", "CMP", AddressingModeAbsoluteX, 3, 4, 1),         \* 0xDD
  Ins("dec", "DEC", AddressingModeAbsoluteX, 3, 7, 0),         \* 0xDE
  Ins("dcp", "DCP", AddressingModeAbsoluteX, 3, 7, 0),         \* 0xDF
  Ins("cpx", "CPX", AddressingModeImmediate, 2, 2, 0),         \* 0xE0
  Ins("sbc", "SBC", AddressingModeIndirectX, 2, 6, 0),         \* 0xE1
  Ins("nop", "NOP", AddressingModeImmediate, 2, 2, 0),         \* 0xE2
  Ins("isc", "ISC", AddressingModeIndirectX, 2, 8, 0),         \* 0xE3
  Ins("cpx", "CPX", AddressingModeZeroPage, 2, 3, 0),          \* 0xE4
  Ins("sbc", "SBC", AddressingModeZeroPage, 2, 3, 0),          \* 0xE5
  Ins("inc", "INC", AddressingModeZeroPage, 2, 5, 0),          \* 0xE6
  Ins("isc", "ISC", AddressingModeZeroPage, 2, 5, 0),          \* 0xE7
  Ins("inx", "INX", AddressingModeImplied, 1, 2, 0),           \* 0xE8
  Ins("sbc", "SBC", AddressingModeImmediate, 2, 2, 0),         \* 0xE9
  Ins("nop", "NOP", AddressingModeImplied, 1, 2, 0),           \* 0xEA
  Ins("sbc", "SBC", AddressingModeImmediate, 2, 2, 0),         \* 0xEB
  Ins("cpx", "CPX", AddressingModeAbsolute, 3, 4, 0),          \* 0xEC
  Ins("sbc", "SBC", AddressingModeAbsolute, 3, 4, 0),          \* 0xED
  Ins("inc", "INC", AddressingModeAbsolute, 3, 6, 0),          \* 0xEE
  Ins("isc", "ISC", AddressingModeAbsolute, 3, 6, 0),          \* 0xEF
  Ins("beq", "BEQ", AddressingModeRelative, 2, 2, 0),          \* 0xF0
  Ins("sbc", "SBC", AddressingModeIndirectY, 2, 5, 1),         \* 0xF1
  Ins("nop", "STP", AddressingModeImplied, 1, 0, 0),           \* 0xF2
  Ins("isc", "ISC", AddressingModeIndirectY, 2, 8, 0),         \* 0xF3
  Ins("nop", "NOP", AddressingModeZeroPageX, 2, 4, 0),         \* 0xF4
  Ins("sbc", "SBC", AddressingModeZeroPageX, 2, 4, 0),         \* 0xF5
  Ins("inc", "INC", AddressingModeZeroPageX, 2, 6, 0),         \* 0xF6
  Ins("isc", "ISC", AddressingModeZeroPageX, 2, 6, 0),         \* 0xF7
  Ins("sed", "SED", AddressingModeImplied, 1, 2, 0),           \* 0xF8
  Ins("sbc", "SBC", AddressingModeAbsoluteY, 3, 4, 1),         \* 0xF9
  Ins("nop", "NOP", AddressingModeImplied, 1, 2, 0),           \* 0xFA
  Ins("isc", "ISC", AddressingModeAbsoluteY, 3, 7, 0),         \* 0xFB
  Ins("nop", "NOP", AddressingModeAbsoluteX, 3, 4, 1),         \* 0xFC
  Ins("sbc", "SBC", AddressingModeAbsoluteX, 3, 4, 1),         \* 0xFD
  Ins("inc", "INC", AddressingModeAbsoluteX, 3, 7, 0),         \* 0xFE
  Ins("isc", "ISC", AddressingModeAbsoluteX, 3, 7, 0)          \* 0xFF
>>

\* Instruction with the descriptor of 0x8B given an addressing mode the switch of
\* fetchOperandAddress has no case for.
InstructionUnknownMode(opcode) ==
  IF opcode = 139
    THEN [Instructions[opcode + 1] EXCEPT !.AddressingMode = 13]
    ELSE Instructions[opcode + 1]

\* The descriptor Clock indexes the table with: Instructions[opcode].
Instruction(opcode) == Instructions[opcode + 1]

(***************************************************************************)
(* Memory.  cpu.RAM is a [65536]uint8 array; it is represented by the      *)
(* image it was filled with and the map c.RAM of the cells that differ     *)
(* from the image, so two equal arrays always have equal representations.  *)
(* Image 0 is the zero array of a new CPU; image 1 is a ROM-like pattern   *)
(* whose bytes differ from cell to cell.                                   *)
(***************************************************************************)
Image(i, addr) ==
  IF i = 0 THEN 0 ELSE ((addr % 256) * 3 + (addr \div 256) * 5 + 7) % 256

\* func (cpu *CPU) Read(addr uint16) uint8
Read(c, addr) == IF addr \in DOMAIN c.RAM THEN c.RAM[addr] ELSE Image(image, addr)

\* func (cpu *CPU) Write(addr uint16, value uint8)
Write(c, addr, value) ==
  [c EXCEPT !.RAM =
     IF value = Image(image, addr)
       THEN [a \in (DOMAIN c.RAM) \ {addr} |-> c.RAM[a]]
       ELSE (addr :> value) @@ c.RAM]

\* func (cpu *CPU) ReadWord(addr uint16) uint16
ReadWord(c, addr) ==
  LET lo == Read(c, addr)
      hi == Read(c, U16(addr + 1))
  IN hi * 256 + lo

\* readWordbug without the page wrap: the plain little-endian word.
readWordNoBug(c, addr) == ReadWord(c, addr)

\* func (cpu *CPU) readWordbug(addr uint16) uint16
readWordbug(c, addr) ==
  IF addr % 256 = 255
    THEN Read(c, addr - 255) * 256 + Read(c, addr)
    ELSE ReadWord(c, addr)

\* func (cpu *CPU) pageCrossed(a, b uint16) bool
pageCrossed(a, b) == (a \div 256) # (b \div 256)

(***************************************************************************)
(* Stack.                                                                  *)
(***************************************************************************)
\* func (cpu *CPU) push(value uint8)
push(c, value) ==
  [Write(c, StackPage + c.SP, value) EXCEPT !.SP = U8(c.SP - 1)]

\* pop that adds 1 to the stack address as a 16-bit sum, without the 8-bit
\* wrap of SP.
popNoWrap(c) ==
  LET d == [c EXCEPT !.SP = U8(c.SP + 1)]
  IN [cpu |-> d, value |-> Read(d, StackPage + c.SP + 1)]

\* func (cpu *CPU) pop() uint8: the CPU after the pop and the value popped
pop(c) ==
  LET d == [c EXCEPT !.SP = U8(c.SP + 1)]
  IN [cpu |-> d, value |-> Read(d, StackPage + d.SP)]

\* func (cpu *CPU) pushWord(value uint16)
pushWord(c, value) ==
  LET hi == value \div 256
      lo == value % 256
  IN push(push(c, hi), lo)

\* func (cpu *CPU) popWord() uint16
popWord(c) ==
  LET lo == pop(c)
      hi == pop(lo.cpu)
  IN [cpu |-> hi.cpu, value |-> hi.value * 256 + lo.value]

(***************************************************************************)
(* Status register.                                                        *)
(***************************************************************************)
\* func (cpu *CPU) setStatus(status Status, value bool)
setStatus(c, status, value) ==
  [c EXCEPT !.SR = IF value THEN BitOr(@, status) ELSE BitAnd(@, 255 - status)]

\* func (cpu *CPU) getStatus(status Status) bool
getStatus(c, status) == BitAnd(c.SR, status) # 0

setZ(c, value) == setStatus(c, StatusZero, value = 0)

setN(c, value) == setStatus(c, StatusNegative, BitAnd(value, 128) # 0)

setZN(c, value) == setN(setZ(c, value), value)

\* branch that never charges the page-crossing cycle.
branchNoPagePenalty(c, taken, address) ==
  IF taken THEN [c EXCEPT !.cycles = U8(@ + 1), !.PC = address] ELSE c

\* branch that compares the target's page with the page of the branch opcode
\* instead of the page of the next instruction.
branchFromOpcode(c, taken, address) ==
  IF taken
    THEN [c EXCEPT !.cycles = U8(@ + 1 + (IF pageCrossed(address, U16(c.PC - 2)) THEN 1 ELSE 0)),
                   !.PC = address]
    ELSE c

\* func (cpu *CPU) branch(branch bool, address uint16)
branch(c, taken, address) ==
  IF taken
    THEN [c EXCEPT !.cycles = U8(@ + 1 + (IF pageCrossed(address, c.PC) THEN 1 ELSE 0)),
                   !.PC = address]
    ELSE c

(***************************************************************************)
(* Effective-address computation.  The result carries the address, the     *)
(* page-crossed flag and whether the code reached its panic (the default   *)
(* branch of the switch).                                                  *)
(***************************************************************************)
Fetched(address, crossed) == [address |-> address, pageCrossed |-> crossed, panic |-> FALSE]

fetchOperandAddress(c, addrMode) ==
  CASE addrMode = AddressingModeImplied -> Fetched(0, FALSE)
    [] addrMode = AddressingModeAccumulator -> Fetched(0, FALSE)
    [] addrMode = AddressingModeImmediate -> Fetched(U16(c.PC + 1), FALSE)
    [] addrMode = AddressingModeZeroPage -> Fetched(Read(c, U16(c.PC + 1)), FALSE)
    [] addrMode = AddressingModeZeroPageX ->
         Fetched(BitAnd(U8(Read(c, U16(c.PC + 1)) + c.X), 255), FALSE)
    [] addrMode = AddressingModeZeroPageY ->
         Fetched(BitAnd(U8(Read(c, U16(c.PC + 1)) + c.Y), 255), FALSE)
    [] addrMode = AddressingModeRelative ->
         LET b == Read(c, U16(c.PC + 1))
             relAddr == IF BitAnd(b, 128) # 0 THEN BitOr(b, 65280) ELSE b
         IN Fetched(U16(c.PC + 2 + relAddr), FALSE)
    [] addrMode = AddressingModeAbsolute -> Fetched(ReadWord(c, U16(c.PC + 1)), FALSE)
    [] addrMode = AddressingModeAbsoluteX ->
         LET address == U16(ReadWord(c, U16(c.PC + 1)) + c.X)
         IN Fetched(address, pageCrossed(U16(address - c.X), address))
    [] addrMode = AddressingModeAbsoluteY ->
         LET address == U16(ReadWord(c, U16(c.PC + 1)) + c.Y)
         IN Fetched(address, pageCrossed(address, U16(address - c.Y)))
    [] addrMode = AddressingModeIndirect ->
         Fetched(readWordbug(c, ReadWord(c, U16(c.PC + 1))), FALSE)
    [] addrMode = AddressingModeIndirectX ->
         Fetched(readWordbug(c, BitAnd(Read(c, U16(c.PC + 1)) + c.X, 255)), FALSE)
    [] addrMode = AddressingModeIndirectY ->
         LET address == U16(readWordbug(c, Read(c, U16(c.PC + 1))) + c.Y)
         IN Fetched(address, pageCrossed(address, U16(address - c.Y)))
    [] OTHER -> [address |-> 0, pageCrossed |-> FALSE, panic |-> TRUE]

(***************************************************************************)
(* Official opcodes.  Each operation maps the CPU (after PC was advanced   *)
(* and cycles was set by Clock) and the operation's arguments to the CPU   *)
(* after the operation.                                                    *)
(***************************************************************************)
\* The sum and flags shared by adc, sbc, isc and rra: A + operand + carryBit.
AddWithCarry(c, operand, carryBit) ==
  LET result == c.A + operand + carryBit
      overflowed ==
        BitAnd(BitAnd(BitXor(c.A, result), 65535 - BitXor(c.A, operand)), 128) # 0
      c1 == setStatus(c, StatusOverflow, overflowed)
      c2 == setStatus(c1, StatusCarry, result > 255)
      c3 == setZN(c2, U8(result))
  IN [c3 EXCEPT !.A = U8(result)]

\* adc that leaves the carry out of the sum.
adcNoCarryIn(c, args) == AddWithCarry(c, Read(c, args.address), 0)

\* adc that adjusts the operand for packed decimal when D is set.
adcDecimal(c, args) ==
  IF getStatus(c, StatusDecimal)
    THEN AddWithCarry(c, U8(Read(c, args.address) + 6), Btou8(getStatus(c, StatusCarry)))
    ELSE AddWithCarry(c, Read(c, args.address), Btou8(getStatus(c, StatusCarry)))

adc(c, args) ==
  AddWithCarry(c, Read(c, args.address), Btou8(getStatus(c, StatusCarry)))

and(c, args) ==
  LET d == [c EXCEPT !.A = BitAnd(@, Read(c, args.address))]
  IN setZN(d, d.A)

asl(c, args) ==
  IF args.addrMode = AddressingModeAccumulator
    THEN LET c1 == setStatus(c, StatusCarry, BitAnd(c.A, 128) # 0)
             c2 == [c1 EXCEPT !.A = U8(@ * 2)]
         IN setZN(c2, c2.A)
    ELSE LET operand == Read(c, args.address)
             c1 == setStatus(c, StatusCarry, BitAnd(operand, 128) # 0)
             shifted == U8(operand * 2)
         IN Write(setZN(c1, shifted), args.address, shifted)

bcc(c, args) == branch(c, ~getStatus(c, StatusCarry), args.address)

bcs(c, args) == branch(c, getStatus(c, StatusCarry), args.address)

beq(c, args) == branch(c, getStatus(c, StatusZero), args.address)

bit(c, args) ==
  LET operand == Read(c, args.address)
      c1 == setZ(c, BitAnd(c.A, operand))
      c2 == setStatus(c1, StatusOverflow, BitAnd(operand, 64) # 0)
  IN setStatus(c2, StatusNegative, BitAnd(operand, 128) # 0)

bmi(c, args) == branch(c, getStatus(c, StatusNegative), args.address)

bne(c, args) == branch(c, ~getStatus(c, StatusZero), args.address)

bpl(c, args) == branch(c, ~getStatus(c, StatusNegative), args.address)

\* brk that sets the I flag before it pushes the status byte, as Interrupt does.
brkMasksFirst(c, args) ==
  LET c1 == pushWord(c, c.PC)
      c2 == setStatus(c1, StatusInterrupt, TRUE)
      c3 == push(c2, BitOr(BitOr(c2.SR, StatusBreak), StatusUnused))
  IN [c3 EXCEPT !.PC = ReadWord(c3, 65534)]

brk(c, args) ==
  LET c1 == pushWord(c, c.PC)
      c2 == push(c1, BitOr(BitOr(c1.SR, StatusBreak), StatusUnused))
      c3 == setStatus(c2, StatusInterrupt, TRUE)
  IN [c3 EXCEPT !.PC = ReadWord(c3, 65534)]

bvc(c, args) == branch(c, ~getStatus(c, StatusOverflow), args.address)

bvs(c, args) == branch(c, getStatus(c, StatusOverflow), args.address)

clc(c, args) == setStatus(c, StatusCarry, FALSE)

cld(c, args) == setStatus(c, StatusDecimal, FALSE)

cli(c, args) == setStatus(c, StatusInterrupt, FALSE)

clv(c, args) == setStatus(c, StatusOverflow, FALSE)

\* The comparison shared by cmp, cpx and cpy.
Compare(c, reg, operand) ==
  setZN(setStatus(c, StatusCarry, reg >= operand), U8(reg - operand))

cmp(c, args) == Compare(c, c.A, Read(c, args.address))

cpx(c, args) == Compare(c, c.X, Read(c, args.address))

cpy(c, args) == Compare(c, c.Y, Read(c, args.address))

dec(c, args) ==
  LET operand == U8(Read(c, args.address) - 1)
  IN setZN(Write(c, args.address, operand), operand)

dex(c, args) ==
  LET d == [c EXCEPT !.X = U8(@ - 1)]
  IN setZN(d, d.X)

dey(c, args) ==
  LET d == [c EXCEPT !.Y = U8(@ - 1)]
  IN setZN(d, d.Y)

eor(c, args) ==
  LET d == [c EXCEPT !.A = BitXor(@, Read(c, args.address))]
  IN setZN(d, d.A)

inc(c, args) ==
  LET operand == U8(Read(c, args.address) + 1)
  IN setZN(Write(c, args.address, operand), operand)

inx(c, args) ==
  LET d == [c EXCEPT !.X = U8(@ + 1)]
  IN setZN(d, d.X)

iny(c, args) ==
  LET d == [c EXCEPT !.Y = U8(@ + 1)]
  IN setZN(d, d.Y)

jmp(c, args) == [c EXCEPT !.PC = args.address]

\* jsr that pushes the address of the next instruction itself.
jsrPushesNext(c, args) == [pushWord(c, c.PC) EXCEPT !.PC = args.address]

jsr(c, args) == [pushWord(c, U16(c.PC - 1)) EXCEPT !.PC = args.address]

lda(c, args) ==
  LET d == [c EXCEPT !.A = Read(c, args.address)]
  IN setZN(d, d.A)

ldx(c, args) ==
  LET d == [c EXCEPT !.X = Read(c, args.address)]
  IN setZN(d, d.X)

ldy(c, args) ==
  LET d == [c EXCEPT !.Y = Read(c, args.address)]
  IN setZN(d, d.Y)

lsr(c, args) ==
  IF args.addrMode = AddressingModeAccumulator
    THEN LET c1 == setStatus(c, StatusCarry, BitAnd(c.A, 1) # 0)
             c2 == [c1 EXCEPT !.A = @ \div 2]
         IN setZN(c2, c2.A)
    ELSE LET operand == Read(c, args.address)
             c1 == setStatus(c, StatusCarry, BitAnd(operand, 1) # 0)
             shifted == operand \div 2
         IN Write(setZN(c1, shifted), args.address, shifted)

nop(c, args) == c

ora(c, args) ==
  LET d == [c EXCEPT !.A = BitOr(@, Read(c, args.address))]
  IN setZN(d, d.A)

pha(c, args) == push(c, c.A)

\* php pushing the live status register as it is.
phpLiveStatus(c, args) == push(c, c.SR)

php(c, args) == push(c, BitOr(BitOr(c.SR, StatusBreak), StatusUnused))

pla(c, args) ==
  LET p == pop(c)
      d == [p.cpu EXCEPT !.A = p.value]
  IN setZN(d, d.A)

plp(c, args) ==
  LET p == pop(c)
      c1 == [p.cpu EXCEPT !.SR = p.value]
      c2 == setStatus(c1, StatusUnused, TRUE)
  IN setStatus(c2, StatusBreak, FALSE)

rol(c, args) ==
  LET carryBit == Btou8(getStatus(c, StatusCarry))
  IN IF args.addrMode = AddressingModeAccumulator
       THEN LET c1 == setStatus(c, StatusCarry, BitAnd(c.A, 128) # 0)
                c2 == [c1 EXCEPT !.A = BitOr(U8(@ * 2), carryBit)]
            IN setZN(c2, c2.A)
       ELSE LET operand == Read(c, args.address)
                c1 == setStatus(c, StatusCarry, BitAnd(operand, 128) # 0)
                rotated == BitOr(U8(operand * 2), carryBit)
            IN Write(setZN(c1, rotated), args.address, rotated)

ror(c, args) ==
  LET carryBit == U8(Btou8(getStatus(c, StatusCarry)) * 128)
  IN IF args.addrMode = AddressingModeAccumulator
       THEN LET c1 == setStatus(c, StatusCarry, BitAnd(c.A, 1) # 0)
                c2 == [c1 EXCEPT !.A = BitOr(@ \div 2, carryBit)]
            IN setZN(c2, c2.A)
       ELSE LET operand == Read(c, args.address)
                c1 == setStatus(c, StatusCarry, BitAnd(operand, 1) # 0)
                rotated == BitOr(operand \div 2, carryBit)
            IN Write(setZN(c1, rotated), args.address, rotated)

rti(c, args) ==
  LET p == pop(c)
      c1 == [p.cpu EXCEPT !.SR = p.value]
      c2 == setStatus(c1, StatusBreak, FALSE)
      c3 == setStatus(c2, StatusUnused, TRUE)
      w == popWord(c3)
  IN [w.cpu EXCEPT !.PC = w.value]

rts(c, args) ==
  LET w == popWord(c)
  IN [w.cpu EXCEPT !.PC = U16(w.value + 1)]

\* sbc that takes the carry flag as a borrow.
sbcCarryAsBorrow(c, args) ==
  AddWithCarry(c, BitXor(Read(c, args.address), 255), 1 - Btou8(getStatus(c, StatusCarry)))

sbc(c, args) ==
  AddWithCarry(c, BitXor(Read(c, args.address), 255), Btou8(getStatus(c, StatusCarry)))

sec(c, args) == setStatus(c, StatusCarry, TRUE)

sed(c, args) == setStatus(c, StatusDecimal, TRUE)

sei(c, args) == setStatus(c, StatusInterrupt, TRUE)

sta(c, args) == Write(c, args.address, c.A)

stx(c, args) == Write(c, args.address, c.X)

sty(c, args) == Write(c, args.address, c.Y)

tax(c, args) ==
  LET d == [c EXCEPT !.X = c.A]
  IN setZN(d, d.X)

tay(c, args) ==
  LET d == [c EXCEPT !.Y = c.A]
  IN setZN(d, d.Y)

\* tsx of the earlier revision: the flags come from Y.
tsxFromY(c, args) ==
  LET d == [c EXCEPT !.X = c.SP]
  IN setZN(d, d.Y)

tsx(c, args) ==
  LET d == [c EXCEPT !.X = c.SP]
  IN setZN(d, d.X)

txa(c, args) ==
  LET d == [c EXCEPT !.A = c.X]
  IN setZN(d, d.A)

txs(c, args) == [c EXCEPT !.SP = c.X]

tya(c, args) ==
  LET d == [c EXCEPT !.A = c.Y]
  IN setZN(d, d.A)

(***************************************************************************)
(* Unofficial opcodes.                                                     *)
(***************************************************************************)
\* uint8(args.address>>8) + 1, the factor of ahx, shx, shy and tas
HighPlusOne(address) == U8((address \div 256) + 1)

ahx(c, args) ==
  Write(c, args.address, BitAnd(BitAnd(c.A, c.X), HighPlusOne(args.address)))

alr(c, args) ==
  LET c1 == [c EXCEPT !.A = Read(c, args.address)]
      c2 == setStatus(c1, StatusCarry, BitAnd(c1.A, 1) # 0)
      c3 == [c2 EXCEPT !.A = @ \div 2]
  IN setZN(c3, c3.A)

anc(c, args) ==
  LET c1 == [c EXCEPT !.A = BitAnd(@, Read(c, args.address))]
      c2 == setZN(c1, c1.A)
  IN setStatus(c2, StatusCarry, getStatus(c2, StatusNegative))

\* cpu.A>>1 | cpu.A&0x0001<<7 is (A >> 1) | ((A & 1) << 7) in Go;
\* cpu.A & 0x20 >> 5 is (A & 0x20) >> 5.
arr(c, args) ==
  LET c1 == [c EXCEPT !.A = BitAnd(@, Read(c, args.address))]
      c2 == [c1 EXCEPT !.A = BitOr(@ \div 2, U8(BitAnd(@, 1) * 128))]
      c3 == setZN(c2, c2.A)
      carryBit == BitAnd(c3.A, 32) # 0
      c4 == setStatus(c3, StatusCarry, carryBit)
      overflowBit == BitXor(BitAnd(c4.A, 32) \div 32, BitAnd(c4.A, 16) \div 16) # 0
  IN setStatus(c4, StatusOverflow, overflowBit)

axs(c, args) ==
  LET operand == Read(c, args.address)
      c1 == [c EXCEPT !.X = BitAnd(@, c.A)]
      result == U16(c1.X - operand)
      carryBit == BitAnd(result, 65280) # 0
      c2 == setStatus(c1, StatusCarry, carryBit)
      c3 == setZN(c2, U8(result))
  IN [c3 EXCEPT !.X = U8(result)]

dcp(c, args) ==
  LET operand == U8(Read(c, args.address) - 1)
      c1 == Write(c, args.address, operand)
  IN Compare(c1, c1.A, operand)

isc(c, args) ==
  LET operand == U8(Read(c, args.address) + 1)
      c1 == Write(c, args.address, operand)
  IN AddWithCarry(c1, BitXor(operand, 255), Btou8(getStatus(c1, StatusCarry)))

las(c, args) ==
  LET sp == BitAnd(c.SP, Read(c, args.address))
  IN [c EXCEPT !.SP = sp, !.A = sp, !.X = sp]

lax(c, args) ==
  LET v == Read(c, args.address)
      d == [c EXCEPT !.A = v, !.X = v]
  IN setZN(d, d.A)

\* rla whose rotation takes no carry in: a shift left, then the AND.
rlaShifts(c, args) ==
  LET operand == Read(c, args.address)
      c1 == setStatus(c, StatusCarry, BitAnd(operand, 128) # 0)
      rotated == U8(operand * 2)
      c2 == Write(c1, args.address, rotated)
      c3 == [c2 EXCEPT !.A = BitAnd(@, rotated)]
  IN setZN(c3, c3.A)

rla(c, args) ==
  LET carryBit == Btou8(getStatus(c, StatusCarry))
      operand == Read(c, args.address)
      c1 == setStatus(c, StatusCarry, BitAnd(operand, 128) # 0)
      rotated == BitOr(U8(operand * 2), carryBit)
      c2 == Write(c1, args.address, rotated)
      c3 == [c2 EXCEPT !.A = BitAnd(@, rotated)]
  IN setZN(c3, c3.A)

rra(c, args) ==
  LET carryBit == Btou8(getStatus(c, StatusCarry))
      operand == Read(c, args.address)
      c1 == setStatus(c, StatusCarry, BitAnd(operand, 1) # 0)
      rotated == BitOr(operand \div 2, U8(carryBit * 128))
      c2 == Write(c1, args.address, rotated)
  IN AddWithCarry(c2, rotated, Btou8(getStatus(c2, StatusCarry)))

sax(c, args) == Write(c, args.address, BitAnd(c.A, c.X))

shx(c, args) == Write(c, args.address, BitAnd(c.X, HighPlusOne(args.address)))

shy(c, args) == Write(c, args.address, BitAnd(c.Y, HighPlusOne(args.address)))

slo(c, args) ==
  LET operand == Read(c, args.address)
      c1 == setStatus(c, StatusCarry, BitAnd(operand, 128) # 0)
      shifted == U8(operand * 2)
      c2 == Write(c1, args.address, shifted)
      c3 == [c2 EXCEPT !.A = BitOr(@, shifted)]
  IN setZN(c3, c3.A)

sre(c, args) ==
  LET operand == Read(c, args.address)
      c1 == setStatus(c, StatusCarry, BitAnd(operand, 1) # 0)
      shifted == operand \div 2
      c2 == Write(c1, args.address, shifted)
      c3 == [c2 EXCEPT !.A = BitXor(@, shifted)]
  IN setZN(c3, c3.A)

tas(c, args) ==
  LET c1 == [c EXCEPT !.SR = BitAnd(c.A, c.X)]
  IN Write(c1, args.address, BitAnd(c1.SR, HighPlusOne(args.address)))

\* Unimplemented operation function
xxx(c, args) == c

\* instruction.operation(cpu, args): the call through the table's function value
Operation(name, c, args) ==
  CASE name = "adc" -> adc(c, args) [] name = "ahx" -> ahx(c, args)
    [] name = "alr" -> alr(c, args) [] name = "anc" -> anc(c, args)
    [] name = "and" -> and(c, args) [] name = "arr" -> arr(c, args)
    [] name = "asl" -> asl(c, args) [] name = "axs" -> axs(c, args)
    [] name = "bcc" -> bcc(c, args) [] name = "bcs" -> bcs(c, args)
    [] name = "beq" -> beq(c, args) [] name = "bit" -> bit(c, args)
    [] name = "bmi" -> bmi(c, args) [] name = "bne" -> bne(c, args)
    [] name = "bpl" -> bpl(c, args) [] name = "brk" -> brk(c, args)
    [] name = "bvc" -> bvc(c, args) [] name = "bvs" -> bvs(c, args)
    [] name = "clc" -> clc(c, args) [] name = "cld" -> cld(c, args)
    [] name = "cli" -> cli(c, args) [] name = "clv" -> clv(c, args)
    [] name = "cmp" -> cmp(c, args) [] name = "cpx" -> cpx(c, args)
    [] name = "cpy" -> cpy(c, args) [] name = "dcp" -> dcp(c, args)
    [] name = "dec" -> dec(c, args) [] name = "dex" -> dex(c, args)
    [] name = "dey" -> dey(c, args) [] name = "eor" -> eor(c, args)
    [] name = "inc" -> inc(c, args) [] name = "inx" -> inx(c, args)
    [] name = "iny" -> iny(c, args) [] name = "isc" -> isc(c, args)
    [] name = "jmp" -> jmp(c, args) [] name = "jsr" -> jsr(c, args)
    [] name = "las" -> las(c, args) [] name = "lax" -> lax(c, args)
    [] name = "lda" -> lda(c, args) [] name = "ldx" -> ldx(c, args)
    [] name = "ldy" -> ldy(c, args) [] name = "lsr" -> lsr(c, args)
    [] name = "nop" -> nop(c, args) [] name = "ora" -> ora(c, args)
    [] name = "pha" -> pha(c, args) [] name = "php" -> php(c, args)
    [] name = "pla" -> pla(c, args) [] name = "plp" -> plp(c, args)
    [] name = "rla" -> rla(c, args) [] name = "rol" -> rol(c, args)
    [] name = "ror" -> ror(c, args) [] name = "rra" -> rra(c, args)
    [] name = "rti" -> rti(c, args) [] name = "rts" -> rts(c, args)
    [] name = "sax" -> sax(c, args) [] name = "sbc" -> sbc(c, args)
    [] name = "sec" -> sec(c, args) [] name = "sed" -> sed(c, args)
    [] name = "sei" -> sei(c, args) [] name = "shx" -> shx(c, args)
    [] name = "shy" -> shy(c, args) [] name = "slo" -> slo(c, args)
    [] name = "sre" -> sre(c, args) [] name = "sta" -> sta(c, args)
    [] name = "stx" -> stx(c, args) [] name = "sty" -> sty(c, args)
    [] name = "tas" -> tas(c, args)
    [] name = "tax" -> tax(c, args) [] name = "tay" -> tay(c, args)
    [] name = "tsx" -> tsx(c, args) [] name = "txa" -> txa(c, args)
    [] name = "txs" -> txs(c, args) [] name = "tya" -> tya(c, args)
    [] name = "xxx" -> xxx(c, args)

(***************************************************************************)
(* Reset, Clock and the interrupts.                                        *)
(***************************************************************************)
\* Reset that leaves the stall counter of the interrupted instruction.
ResetKeepsCycles(c) ==
  [c EXCEPT !.A = 0, !.X = 0, !.Y = 0,
            !.PC = Read(c, ResetVector) + 256 * Read(c, U16(ResetVector + 1)),
            !.SP = StackReset,
            !.SR = BitOr(StatusUnused, StatusInterrupt),
            !.TotalCycles = 0]

\* func (cpu *CPU) Reset()
Reset(c) ==
  [c EXCEPT !.A = 0, !.X = 0, !.Y = 0,
            !.PC = ReadWord(c, ResetVector),
            !.SP = StackReset,
            !.SR = BitOr(StatusUnused, StatusInterrupt),
            !.cycles = 0,
            !.TotalCycles = 0]

EmptyRAM == [a \in {} |-> 0]

\* func NewCPU() *CPU: the zero CPU struct, then Reset
NewCPU ==
  Reset([A |-> 0, X |-> 0, Y |-> 0, PC |-> 0, SP |-> 0, SR |-> 0,
         cycles |-> 0, TotalCycles |-> 0, RAM |-> EmptyRAM])

\* Stall that accounts the elapsed cycle a second time.
StallCounted(c) == [c EXCEPT !.cycles = @ - 1, !.TotalCycles = @ + 1]

\* Clock with cycles > 0: cpu.cycles--
Stall(c) == [c EXCEPT !.cycles = @ - 1]

\* Execute charging the additional cycle whether or not a page was crossed.
ExecuteAlwaysExtra(c, instruction, fetch) ==
  LET args == [addrMode |-> instruction.AddressingMode, address |-> fetch.address]
      c1 == [c EXCEPT !.cycles = U8(instruction.Cycles + instruction.AdditionalCycles)]
      c3 == [c1 EXCEPT !.PC = U16(@ + instruction.Size)]
      c4 == Operation(instruction.operation, c3, args)
      c5 == [c4 EXCEPT !.TotalCycles = @ + c4.cycles]
  IN [c5 EXCEPT !.cycles = U8(@ - 1)]

\* Clock with cycles = 0, after the operand address was computed: the cycles of
\* the descriptor, the PC advance, the operation, the accounting.
Execute(c, instruction, fetch) ==
  LET args == [addrMode |-> instruction.AddressingMode, address |-> fetch.address]
      c1 == [c EXCEPT !.cycles = instruction.Cycles]
      c2 == IF fetch.pageCrossed
              THEN [c1 EXCEPT !.cycles = U8(@ + instruction.AdditionalCycles)]
              ELSE c1
      c3 == [c2 EXCEPT !.PC = U16(@ + instruction.Size)]
      c4 == Operation(instruction.operation, c3, args)
      c5 == [c4 EXCEPT !.TotalCycles = @ + c4.cycles]
  IN [c5 EXCEPT !.cycles = U8(@ - 1)]

\* func (cpu *CPU) Clock() bool: the CPU after the call, the value returned, and
\* what the call did (fetched: it executed an instruction; panic: it ended in
\* the panic of fetchOperandAddress and returned nothing).
Clock(c) ==
  IF c.cycles > 0
    THEN LET d == Stall(c)
         IN [cpu |-> d, ret |-> d.cycles <= 0, fetched |-> FALSE, opcode |-> 0,
             pageCrossed |-> FALSE, panic |-> FALSE]
    ELSE LET opcode == Read(c, c.PC)
             instruction == Instruction(opcode)
             fetch == fetchOperandAddress(c, instruction.AddressingMode)
         IN IF fetch.panic
              THEN [cpu |-> c, ret |-> FALSE, fetched |-> FALSE, opcode |-> opcode,
                    pageCrossed |-> FALSE, panic |-> TRUE]
              ELSE [cpu |-> Execute(c, instruction, fetch), ret |-> FALSE,
                    fetched |-> TRUE, opcode |-> opcode,
                    pageCrossed |-> fetch.pageCrossed, panic |-> FALSE]

\* The body shared by IRQ and NMI: push PC and the status, load PC from the vector.
Interrupt(c, vector, cost) ==
  LET c1 == pushWord(c, c.PC)
      c2 == setStatus(c1, StatusBreak, FALSE)
      c3 == setStatus(c2, StatusInterrupt, TRUE)
      c4 == setStatus(c3, StatusUnused, TRUE)
      c5 == push(c4, c4.SR)
      c6 == [c5 EXCEPT !.PC = ReadWord(c5, vector)]
      c7 == [c6 EXCEPT !.cycles = cost]
  IN [c7 EXCEPT !.TotalCycles = @ + c7.cycles]

\* IRQ that is delivered whatever the I flag is.
IRQIgnoresMask(c) == Interrupt(c, IRQVector, 7)

\* func (cpu *CPU) IRQ()
IRQ(c) == IF ~getStatus(c, StatusInterrupt) THEN Interrupt(c, IRQVector, 7) ELSE c

\* NMI that the I flag masks, as it masks IRQ.
NMIMaskable(c) == IF ~getStatus(c, StatusInterrupt) THEN Interrupt(c, NMIVector, 8) ELSE c

\* func (cpu *CPU) NMI()
NMI(c) == Interrupt(c, NMIVector, 8)

(***************************************************************************)
(* The PPU (register interface and Clock) and the NES bus and clock.       *)
(* nameTable, paletteTable and nes.ram are zero-filled arrays, kept as the *)
(* finite maps of their non-zero cells.                                    *)
(***************************************************************************)
CtrlGenerateNMI == 128
StatusVerticalBlank == 128

\* An array cell of a zero-filled array kept as the map of its non-zero cells.
Cell(cells, i) == IF i \in DOMAIN cells THEN cells[i] ELSE 0

Store(cells, i, value) ==
  IF value = 0 THEN [a \in (DOMAIN cells) \ {i} |-> cells[a]] ELSE (i :> value) @@ cells

\* The CHR byte the cartridge holds at addr (one 8 KiB bank of ROM).
Chr(addr) == (addr * 7 + 1) % 256

\* func NewPPU(cartridge *cartridge.Cartridge) *PPU
NewPPU ==
  [ctrl |-> 0, mask |-> 0, status |-> 0, scanline |-> 0, cycle |-> 0,
   memoryAddress |-> 0, addressLatch |-> FALSE, dataBuffer |-> 0, EmitNMI |-> FALSE,
   nameTable |-> EmptyRAM, paletteTable |-> EmptyRAM]

\* func (ppu *PPU) setStatus(status Status, value bool)
ppuSetStatus(p, status, value) ==
  [p EXCEPT !.status = IF value THEN BitOr(@, status) ELSE BitAnd(@, 255 - status)]

\* func (ppu *PPU) getCtrl(ctrl Ctrl) bool
getCtrl(p, ctrl) == BitAnd(p.ctrl, ctrl) # 0

\* The palette index of readMemory and writeMemory.
PaletteIndex(addr) ==
  LET a == (addr - 16128) % 32
  IN IF a \in {16, 20, 24, 28} THEN a - 16 ELSE a

\* func (ppu *PPU) readMemory(addr uint16) uint8
readMemory(p, addr) ==
  CASE addr <= 8191 -> Chr(addr)
    [] addr >= 8192 /\ addr <= 16127 -> Cell(p.nameTable, addr % 2048)
    [] addr >= 16128 /\ addr <= 16383 -> Cell(p.paletteTable, PaletteIndex(addr))
    [] OTHER -> 0

\* writeMemory without the mirroring of the name tables.
writeMemoryUnmirrored(p, addr, value) ==
  CASE addr <= 8191 -> p
    [] addr >= 8192 /\ addr <= 16127 ->
         [p EXCEPT !.nameTable = Store(@, addr - 8192, value)]
    [] addr >= 16128 /\ addr <= 16383 ->
         [p EXCEPT !.paletteTable = Store(@, PaletteIndex(addr), value)]
    [] OTHER -> p

\* func (ppu *PPU) writeMemory(addr uint16, value uint8)
writeMemory(p, addr, value) ==
  CASE addr <= 8191 -> p
    [] addr >= 8192 /\ addr <= 16127 ->
         [p EXCEPT !.nameTable = Store(@, addr % 2048, value)]
    [] addr >= 16128 /\ addr <= 16383 ->
         [p EXCEPT !.paletteTable = Store(@, PaletteIndex(addr), value)]
    [] OTHER -> p

\* The earlier revision of Read: the status read returns all of status, leaves
\* the address latch alone, and the data read does not move the address.
PPUReadEarlier(p, addr) ==
  CASE addr = 2 ->
         [ppu |-> ppuSetStatus(p, StatusVerticalBlank, FALSE),
          value |-> BitOr(p.status, BitAnd(p.dataBuffer, 31))]
    [] addr = 7 ->
         IF p.memoryAddress > 16128
           THEN [ppu |-> p, value |-> p.dataBuffer]
           ELSE [ppu |-> [p EXCEPT !.dataBuffer = readMemory(p, p.memoryAddress)],
                 value |-> p.dataBuffer]
    [] OTHER -> [ppu |-> p, value |-> 0]

\* func (ppu *PPU) Read(addr uint16) uint8: the PPU after the read and the value
PPURead(p, addr) ==
  CASE addr = 2 ->
         [ppu |-> [ppuSetStatus(p, StatusVerticalBlank, FALSE) EXCEPT !.addressLatch = FALSE],
          value |-> BitOr(BitAnd(p.status, 224), BitAnd(p.dataBuffer, 31))]
    [] addr = 7 ->
         LET buffered == readMemory(p, p.memoryAddress)
             value == IF p.memoryAddress > 16128 THEN buffered ELSE p.dataBuffer
         IN [ppu |-> [p EXCEPT !.dataBuffer = buffered,
                               !.memoryAddress = U16(@ + 1)],
             value |-> value]
    [] OTHER -> [ppu |-> p, value |-> 0]

\* A Write whose PPUADDR latch takes the low byte first.
PPUWriteLowFirst(p, addr, value) ==
  CASE addr = 0 -> [p EXCEPT !.ctrl = value]
    [] addr = 1 -> [p EXCEPT !.mask = value]
    [] addr = 6 ->
         IF p.addressLatch
           THEN [p EXCEPT !.memoryAddress = BitOr(BitAnd(@, 255), value * 256),
                          !.addressLatch = FALSE]
           ELSE [p EXCEPT !.memoryAddress = BitOr(BitAnd(@, 65280), value),
                          !.addressLatch = TRUE]
    [] addr = 7 ->
         [writeMemory(p, p.memoryAddress, value) EXCEPT !.memoryAddress = U16(@ + 1)]
    [] OTHER -> p

\* func (ppu *PPU) Write(addr uint16, value uint8)
PPUWrite(p, addr, value) ==
  CASE addr = 0 -> [p EXCEPT !.ctrl = value]
    [] addr = 1 -> [p EXCEPT !.mask = value]
    [] addr = 6 ->
         IF ~p.addressLatch
           THEN [p EXCEPT !.memoryAddress = BitOr(BitAnd(@, 255), value * 256),
                          !.addressLatch = TRUE]
           ELSE [p EXCEPT !.memoryAddress = BitOr(BitAnd(@, 65280), value),
                          !.addressLatch = FALSE]
    [] addr = 7 ->
         [writeMemory(p, p.memoryAddress, value) EXCEPT !.memoryAddress = U16(@ + 1)]
    [] OTHER -> p

\* func (ppu *PPU) Clock()
PPUClock(p) ==
  LET p1 == IF p.scanline = -1 /\ p.cycle = 1
              THEN ppuSetStatus(p, StatusVerticalBlank, FALSE)
              ELSE p
  IN IF p1.scanline = 241 /\ p1.cycle = 1
       THEN LET p2 == ppuSetStatus(p1, StatusVerticalBlank, TRUE)
            IN IF getCtrl(p2, CtrlGenerateNMI) THEN [p2 EXCEPT !.EmitNMI = TRUE] ELSE p2
       ELSE p1

\* func NewNES(cartridge *cartridge.Cartridge) *NES: the cartridge field is never
\* assigned and keeps Go's nil.
NewNES == [TotalCycles |-> 0, ram |-> EmptyRAM, cartridge |-> "nil"]

\* func (nes *NES) Read(addr uint16) uint8: the NES and PPU after the read, the
\* value, and whether the call faulted (a method called on the nil cartridge).
NESRead(n, p, addr) ==
  CASE addr <= 8191 ->
         [nes |-> n, ppu |-> p, value |-> Cell(n.ram, addr % 2048), fault |-> FALSE]
    [] addr >= 8192 /\ addr <= 16383 ->
         LET r == PPURead(p, addr % 8)
         IN [nes |-> n, ppu |-> r.ppu, value |-> r.value, fault |-> FALSE]
    [] OTHER -> [nes |-> n, ppu |-> p, value |-> 0, fault |-> n.cartridge = "nil"]

\* func (nes *NES) Write(addr uint16, value uint8)
NESWrite(n, p, addr, value) ==
  CASE addr <= 8191 ->
         [nes |-> [n EXCEPT !.ram = Store(@, addr % 2048, value)], ppu |-> p,
          fault |-> FALSE]
    [] addr >= 8192 /\ addr <= 16383 ->
         [nes |-> n, ppu |-> PPUWrite(p, addr % 8, value), fault |-> FALSE]
    [] OTHER -> [nes |-> n, ppu |-> p, fault |-> n.cartridge = "nil"]

(***************************************************************************)
(* The cartridge and its mapper 0.  The ROM file's bytes are fixed         *)
(* functions of their offset; pgrMemory and chrMemory are kept as the      *)
(* cells that differ from the file's bytes.                                *)
(***************************************************************************)
\* The byte at offset i of the PRG data of the ROM file.
PrgFile(i) == (i + 37 * (i \div 16384)) % 256

\* func NewCartridge(romPath string) (*Cartridge, error), for a file whose header
\* declares prgSize and chrSize and that holds the bytes it declares.
NewCartridge(prgSize, chrSize) ==
  [pgrBanks |-> prgSize, chrBanks |-> chrSize,
   pgrMemory |-> EmptyRAM, chrMemory |-> EmptyRAM]

\* cartridge.pgrMemory[i]
PgrByte(c, i) == IF i \in DOMAIN c.pgrMemory THEN c.pgrMemory[i] ELSE PrgFile(i)

\* cartridge.chrMemory[i]
ChrByte(c, i) == IF i \in DOMAIN c.chrMemory THEN c.chrMemory[i] ELSE Chr(i)

\* func (mapper Mapper000) PGRRead(addr uint16) uint8: the value, the index read,
\* and whether the call faulted (the remainder by a uint16 that is zero).
PGRRead(c, addr) ==
  IF addr >= 32768 /\ addr <= 65535
    THEN LET pgrMemorySize == c.pgrBanks * 16384
             divisor == pgrMemorySize % 65536
         IN IF divisor = 0
              THEN [fault |-> TRUE, index |-> 0, value |-> 0]
              ELSE [fault |-> FALSE, index |-> addr % divisor,
                    value |-> PgrByte(c, addr % divisor)]
    ELSE [fault |-> FALSE, index |-> 0, value |-> 0]

\* A PRG write that stores the value where PGRRead would read it.
PRGWriteStores(c, addr, value) ==
  IF addr >= 32768 /\ ~PGRRead(c, addr).fault
    THEN [c EXCEPT !.pgrMemory = (PGRRead(c, addr).index :> value) @@ @]
    ELSE c

\* func (mapper Mapper000) PRGWrite(addr uint16, value uint8)
PRGWrite(c, addr, value) == c

\* func (mapper Mapper000) CHRRead(addr uint16) uint8: faults when addr is beyond
\* the CHR bytes the file holds.
CHRRead(c, addr) ==
  IF addr <= 8191
    THEN IF addr < c.chrBanks * 8192
           THEN [fault |-> FALSE, value |-> ChrByte(c, addr)]
           ELSE [fault |-> TRUE, value |-> 0]
    ELSE [fault |-> FALSE, value |-> 0]

\* func (mapper Mapper000) CHRWrite(addr uint16, value uint8)
CHRWrite(c, addr, value) == c

(***************************************************************************)
(* The CPU under a test harness, as src/test/cpu_test.go drives it: a new  *)
(* CPU, a memory image copied into cpu.RAM, the exported registers set,    *)
(* then calls of Clock (Spec) and of Clock, NMI, IRQ and Reset (SpecInt).  *)
(***************************************************************************)
Opcodes == 0..255

\* Inputs of Spec.
ProgramCounters == {254, 49152}     \* 0x00FE, 0xC000
OperandLo == {2, 128, 255}
OperandHi == {0, 2}
RegA == {0, 195}
RegX == {0, 255}
RegY == {1}
RegSP == {253, 1}
RegSR == {36, 235}                  \* I; N V D Z C (U set, B clear)

\* Inputs of SpecInt.
IntOpcodes == {0, 8, 40, 64, 88, 120, 155, 169, 234}
IntRegA == {0, 211}
IntRegSP == {253, 1}
IntRegSR == {36, 227}

NoCall(name) ==
  [call |-> name, ret |-> FALSE, fetched |-> FALSE, opcode |-> 0,
   pageCrossed |-> FALSE, panic |-> FALSE, pre |-> NewCPU]

Init ==
  /\ image = 0
  /\ cpu = NewCPU
  /\ last = NoCall("NewCPU")
  /\ run = [n |-> 0, added |-> 0, live |-> FALSE]
  /\ fetches = 0
  /\ interrupts = 0
  /\ calls = 0
  /\ nes = NewNES
  /\ ppu = NewPPU
  /\ ticks = [ppu |-> 0, cpu |-> 0, nmi |-> 0, bus |-> 0, fault |-> FALSE,
              since |-> 0, gap |-> 0]
  /\ cart = NewCartridge(1, 1)

\* The image with the instruction bytes written over it.
Program(pc, op, lo, hi) ==
  LET bytes == (pc :> op) @@ (U16(pc + 1) :> lo) @@ (U16(pc + 2) :> hi)
  IN [a \in {b \in DOMAIN bytes : bytes[b] # Image(1, b)} |-> bytes[a]]

\* The harness prepares a CPU: memory image 1 with one instruction at pc, and
\* the exported registers.
Load(pc, op, lo, hi, a, x, y, sp, sr) ==
  /\ image' = 1
  /\ cpu' = [A |-> a, X |-> x, Y |-> y, PC |-> pc, SP |-> sp, SR |-> sr,
             cycles |-> 0, TotalCycles |-> 0, RAM |-> Program(pc, op, lo, hi)]
  /\ last' = [NoCall("Setup") EXCEPT !.pre = cpu]
  /\ UNCHANGED <<run, fetches, interrupts, calls, nes, ppu, ticks, cart>>

\* The operand bytes an instruction of this size has; the others keep the image.
LoBytes(pc, op) == IF Instruction(op).Size >= 2 THEN OperandLo ELSE {Image(1, U16(pc + 1))}
HiBytes(pc, op) == IF Instruction(op).Size >= 3 THEN OperandHi ELSE {Image(1, U16(pc + 2))}

Setup ==
  /\ last.call = "NewCPU"
  /\ \E pc \in ProgramCounters, op \in Opcodes :
       \E lo \in LoBytes(pc, op), hi \in HiBytes(pc, op) :
         \E a \in RegA, x \in RegX, y \in RegY, sp \in RegSP, sr \in RegSR :
           Load(pc, op, lo, hi, a, x, y, sp, sr)

SetupInt ==
  /\ last.call = "NewCPU"
  /\ \E op \in IntOpcodes, a \in IntRegA, sp \in IntRegSP, sr \in IntRegSR :
       Load(49152, op, 2, 2, a, 255, 1, sp, sr)

\* One call of cpu.Clock().
DoClock ==
  /\ ~last.panic
  /\ LET r == Clock(cpu)
     IN /\ cpu' = r.cpu
        /\ last' = [call |-> "Clock", ret |-> r.ret, fetched |-> r.fetched,
                    opcode |-> r.opcode, pageCrossed |-> r.pageCrossed,
                    panic |-> r.panic, pre |-> cpu]
        /\ run' = IF r.fetched
                    THEN [n |-> 1, added |-> r.cpu.TotalCycles - cpu.TotalCycles,
                          live |-> TRUE]
                    ELSE [run EXCEPT !.n = @ + 1]
        /\ fetches' = fetches + (IF cpu.cycles = 0 THEN 1 ELSE 0)
  /\ calls' = calls + 1
  /\ ticks' = [ticks EXCEPT !.cpu = @ + 1]
  /\ UNCHANGED <<image, interrupts, nes, ppu, cart>>

\* One call of cpu.NMI(), cpu.IRQ() or cpu.Reset().
DoCall(name, after) ==
  /\ ~last.panic
  /\ interrupts < MaxInterrupts
  /\ calls < MaxCalls
  /\ cpu' = after
  /\ last' = [NoCall(name) EXCEPT !.pre = cpu]
  /\ run' = [run EXCEPT !.live = FALSE]
  /\ interrupts' = interrupts + 1
  /\ calls' = calls + 1
  /\ ticks' = IF name = "Reset" THEN [ticks EXCEPT !.cpu = 0] ELSE ticks
  /\ UNCHANGED <<image, fetches, nes, ppu, cart>>

CPUClock ==
  /\ cpu.cycles > 0 \/ fetches < MaxInstr
  /\ DoClock

IntClock ==
  /\ cpu.cycles > 0 \/ fetches < MaxIntInstr
  /\ calls < MaxCalls
  /\ DoClock

CPUNMI == DoCall("NMI", NMI(cpu))

CPUIRQ == DoCall("IRQ", IRQ(cpu))

CPUReset == DoCall("Reset", Reset(cpu))

Next == Setup \/ CPUClock

Spec == Init /\ [][Next]_vars

NextInt == SetupInt \/ IntClock \/ CPUNMI \/ CPUIRQ \/ CPUReset

SpecInt == Init /\ [][NextInt]_vars

(***************************************************************************)
(* The console: NES.Clock ticks, with reads and writes on the bus between  *)
(* them (SpecNES).                                                         *)
(***************************************************************************)
MaxTicks == 24       \* master ticks in one run of SpecNES
MaxBusOps == 2       \* bus reads and writes in one run of SpecNES

BusAddrs == {1, 2049, 8192, 8194, 8198, 8199, 16135, 32768}
BusValues == {0, 63, 128}

\* func (nes *NES) Clock()
NESClock ==
  /\ ~ticks.fault
  /\ nes.TotalCycles < MaxTicks
  /\ LET p1 == PPUClock(ppu)
         stepped == nes.TotalCycles % 3 = 0
         c1 == IF stepped THEN Clock(cpu).cpu ELSE cpu
     IN /\ cpu' = IF p1.EmitNMI THEN NMI(c1) ELSE c1
        /\ ppu' = IF p1.EmitNMI THEN [p1 EXCEPT !.EmitNMI = FALSE] ELSE p1
        /\ ticks' = [ticks EXCEPT !.ppu = @ + 1,
                                  !.cpu = @ + (IF stepped THEN 1 ELSE 0),
                                  !.nmi = @ + (IF p1.EmitNMI THEN 1 ELSE 0),
                                  !.since = IF stepped THEN 0 ELSE @ + 1,
                                  !.gap = IF stepped THEN ticks.since + 1 ELSE @]
  /\ nes' = [nes EXCEPT !.TotalCycles = @ + 1]
  /\ UNCHANGED <<image, last, run, fetches, interrupts, calls, cart>>

\* What last records of a bus call: the address, the value written or returned,
\* and the NES and PPU before and after it.
BusCall(name, addr, value, r) ==
  [call |-> name, addr |-> addr, value |-> value, fault |-> r.fault,
   pre |-> [nes |-> nes, ppu |-> ppu], post |-> [nes |-> r.nes, ppu |-> r.ppu]]

\* One call of nes.Write(addr, value).
BusWrite ==
  /\ ~ticks.fault
  /\ ticks.bus < MaxBusOps
  /\ \E addr \in BusAddrs, value \in BusValues :
       LET w == NESWrite(nes, ppu, addr, value)
       IN /\ nes' = w.nes
          /\ ppu' = w.ppu
          /\ ticks' = [ticks EXCEPT !.bus = @ + 1, !.fault = w.fault]
          /\ last' = BusCall("Write", addr, value, w)
  /\ UNCHANGED <<cpu, image, run, fetches, interrupts, calls, cart>>

\* One call of nes.Read(addr).
BusRead ==
  /\ ~ticks.fault
  /\ ticks.bus < MaxBusOps
  /\ \E addr \in BusAddrs :
       LET r == NESRead(nes, ppu, addr)
       IN /\ nes' = r.nes
          /\ ppu' = r.ppu
          /\ ticks' = [ticks EXCEPT !.bus = @ + 1, !.fault = r.fault]
          /\ last' = BusCall("Read", addr, r.value, r)
  /\ UNCHANGED <<cpu, image, run, fetches, interrupts, calls, cart>>

NextNES == NESClock \/ BusWrite \/ BusRead

SpecNES == Init /\ [][NextNES]_vars

(***************************************************************************)
(* The system under continued ticks.  Every tick is one whole call of      *)
(* NES.Clock.  The two lifetime counters grow without bound, so here the   *)
(* state keeps of them only what the code reads: nothing reads             *)
(* cpu.TotalCycles, and NES.Clock reads nes.TotalCycles modulo 3 only.     *)
(* ticks.nmi records whether cpu.NMI() was called.  The CPU runs the loop  *)
(* JMP $C000 placed at $C000, so that it neither halts nor fills memory.   *)
(***************************************************************************)
\* The harness prepares the CPU with 4C 00 C0 at PC = 0xC000.
LiveSetup ==
  /\ last.call = "NewCPU"
  /\ \E a \in IntRegA, x \in RegX, sp \in IntRegSP, sr \in IntRegSR :
       Load(49152, 76, 0, 192, a, x, 1, sp, sr)

\* func (nes *NES) Clock(), with the counters reduced as described.
LiveClock ==
  /\ last.call = "Setup"
  /\ LET p1 == PPUClock(ppu)
         stepped == nes.TotalCycles % 3 = 0
         c1 == IF stepped THEN Clock(cpu).cpu ELSE cpu
         c2 == IF p1.EmitNMI THEN NMI(c1) ELSE c1
     IN /\ cpu' = [c2 EXCEPT !.TotalCycles = 0]
        /\ ppu' = IF p1.EmitNMI THEN [p1 EXCEPT !.EmitNMI = FALSE] ELSE p1
        /\ ticks' = [ticks EXCEPT !.nmi = IF p1.EmitNMI THEN 1 ELSE @]
  /\ nes' = [nes EXCEPT !.TotalCycles = (@ + 1) % 3]
  /\ UNCHANGED <<image, last, run, fetches, interrupts, calls, cart>>

\* nes.Write(0x2000, 0x80): the program sets bit 7 of PPUCTRL.
EnableNMI ==
  /\ ~getCtrl(ppu, CtrlGenerateNMI)
  /\ LET w == NESWrite(nes, ppu, 8192, CtrlGenerateNMI)
     IN /\ nes' = w.nes
        /\ ppu' = w.ppu
  /\ UNCHANGED <<cpu, image, last, run, fetches, interrupts, calls, ticks, cart>>

NextLive == LiveSetup \/ LiveClock \/ EnableNMI

\* The harness prepares the CPU and then calls NES.Clock forever.
SpecLive == Init /\ [][NextLive]_vars /\ WF_vars(LiveSetup) /\ WF_vars(LiveClock)

(***************************************************************************)
(* The PPU's registers read and written directly (SpecPPU).  last records  *)
(* the call, the register, the value written or returned, the PPU before   *)
(* it, and how many PPUADDR writes there have been since the latest        *)
(* PPUSTATUS read.                                                         *)
(***************************************************************************)
MaxRegOps == 6       \* register reads and writes in one run of SpecPPU

PPUReadRegs == {2, 7}
PPUWriteRegs == {5, 6, 7}
PPUBytes == {0, 32, 62, 63, 255}

AddrWrites == IF last.call \in {"PPURead", "PPUWrite"} THEN last.count ELSE 0

RegCall(name, addr, value, after) ==
  /\ last.call \in {"NewCPU", "PPURead", "PPUWrite"}
  /\ calls < MaxRegOps
  /\ ppu' = after
  /\ last' = [call |-> name, addr |-> addr, value |-> value, pre |-> ppu,
              count |-> CASE name = "PPUWrite" /\ addr = 6 -> AddrWrites + 1
                          [] name = "PPURead" /\ addr = 2 -> 0
                          [] OTHER -> AddrWrites]
  /\ calls' = calls + 1
  /\ UNCHANGED <<cpu, image, run, fetches, interrupts, nes, ticks, cart>>

\* One call of ppu.Read(addr).
PPURegRead ==
  \E addr \in PPUReadRegs :
    RegCall("PPURead", addr, PPURead(ppu, addr).value, PPURead(ppu, addr).ppu)

\* One call of ppu.Write(addr, value).
PPURegWrite ==
  \E addr \in PPUWriteRegs, value \in PPUBytes :
    /\ addr = 6 \/ value = 63
    /\ RegCall("PPUWrite", addr, value, PPUWrite(ppu, addr, value))

NextPPU == PPURegRead \/ PPURegWrite

SpecPPU == Init /\ [][NextPPU]_vars

(***************************************************************************)
(* A cartridge loaded from a ROM file and its PRG and CHR space read and   *)
(* written through the cartridge's methods (SpecCart).  last records the   *)
(* call, its address, the value written or returned, whether the call      *)
(* faulted, and the cartridge before it.                                   *)
(***************************************************************************)
MaxCartOps == 2      \* cartridge reads and writes in one run of SpecCart

PRGSizes == {0, 1, 2, 3, 4, 5, 8, 255}
CHRSizes == {0, 1}
CartAddrs == {0, 8191, 8192, 32767, 32768, 32769, 40960, 49151, 49152, 49153, 65535}
CartValues == {0, 90}

\* cartridge.NewCartridge(romPath) for a ROM file with the given header sizes.
CartSetup ==
  /\ last.call = "NewCPU"
  /\ \E prgSize \in PRGSizes, chrSize \in CHRSizes :
       cart' = NewCartridge(prgSize, chrSize)
  /\ last' = [call |-> "NewCartridge", addr |-> 0, value |-> 0, fault |-> FALSE,
              pre |-> cart]
  /\ UNCHANGED <<cpu, image, run, fetches, interrupts, calls, nes, ppu, ticks>>

CartCall(name, addr, value, fault, after) ==
  /\ last.call \in {"NewCartridge", "PRGRead", "PRGWrite", "CHRRead", "CHRWrite"}
  /\ ~last.fault
  /\ calls < MaxCartOps
  /\ cart' = after
  /\ last' = [call |-> name, addr |-> addr, value |-> value, fault |-> fault,
              pre |-> cart]
  /\ calls' = calls + 1
  /\ UNCHANGED <<cpu, image, run, fetches, interrupts, nes, ppu, ticks>>

\* func (cartridge *Cartridge) PRGRead(addr uint16) uint8
CartPRGRead ==
  \E addr \in CartAddrs :
    CartCall("PRGRead", addr, PGRRead(cart, addr).value, PGRRead(cart, addr).fault, cart)

\* func (cartridge *Cartridge) PRGWrite(addr uint16, value uint8)
CartPRGWrite ==
  \E addr \in CartAddrs, value \in CartValues :
    CartCall("PRGWrite", addr, value, FALSE, PRGWrite(cart, addr, value))

\* func (cartridge *Cartridge) CHRRead(addr uint16) uint8
CartCHRRead ==
  \E addr \in CartAddrs :
    CartCall("CHRRead", addr, CHRRead(cart, addr).value, CHRRead(cart, addr).fault, cart)

\* func (cartridge *Cartridge) CHRWrite(addr uint16, value uint8)
CartCHRWrite ==
  \E addr \in CartAddrs, value \in CartValues :
    CartCall("CHRWrite", addr, value, FALSE, CHRWrite(cart, addr, value))

NextCart == CartSetup \/ CartPRGRead \/ CartPRGWrite \/ CartCHRRead \/ CartCHRWrite

SpecCart == Init /\ [][NextCart]_vars

(***************************************************************************)
(* The stack primitives called directly.  last records the call, its        *)
(* argument or result, the CPU before it, and the call that preceded it.   *)
(***************************************************************************)
MaxStackOps == 3     \* push, pop, pushWord and popWord calls in one run of SpecStack

StackSPs == {0, 1, 253, 254, 255}
StackBytes == {0, 18, 255}
StackWords == {0, 4660, 65280, 65535}

StackCall(name, value) ==
  [call |-> name, value |-> value, pre |-> cpu,
   prev |-> [call |-> last.call, value |-> last.value, pre |-> last.pre]]

\* The harness sets the exported SP of a new CPU; RAM is left zero or filled.
StackSetup ==
  /\ last.call = "NewCPU"
  /\ \E sp \in StackSPs, i \in {0, 1} :
       /\ image' = i
       /\ cpu' = [cpu EXCEPT !.SP = sp]
  /\ last' = [call |-> "Setup", value |-> 0, pre |-> cpu]
  /\ UNCHANGED <<run, fetches, interrupts, calls, nes, ppu, ticks, cart>>

StackOp(after, name, value) ==
  /\ last.call # "NewCPU"
  /\ calls < MaxStackOps
  /\ cpu' = after
  /\ last' = StackCall(name, value)
  /\ calls' = calls + 1
  /\ UNCHANGED <<image, run, fetches, interrupts, nes, ppu, ticks, cart>>

StackPush == \E v \in StackBytes : StackOp(push(cpu, v), "push", v)

StackPop == StackOp(pop(cpu).cpu, "pop", pop(cpu).value)

StackPushWord == \E v \in StackWords : StackOp(pushWord(cpu, v), "pushWord", v)

StackPopWord == StackOp(popWord(cpu).cpu, "popWord", popWord(cpu).value)

NextStack == StackSetup \/ StackPush \/ StackPop \/ StackPushWord \/ StackPopWord

SpecStack == Init /\ [][NextStack]_vars

(***************************************************************************)
(* The arithmetic instructions on every accumulator, operand and carry.    *)
(* ADC and SBC take the operand byte itself (immediate mode); RRA and ISC  *)
(* take it from the zero-page cell the operand byte names.                 *)
(***************************************************************************)
ALUOpcodes == {105, 233, 103, 231}      \* ADC #, SBC #, RRA zp, ISC zp
ALUBytes == 0..255
ALUFewBytes == {0, 1, 64, 80, 127, 128, 208, 255}
ALUOperands ==
  {0, 1, 2, 7, 8, 15, 16, 31, 32, 63, 64, 65, 79, 80, 96, 111, 112, 126, 127,
   128, 129, 143, 144, 159, 160, 176, 191, 192, 208, 240, 254, 255}
ALUStatus == {36, 37, 44, 45}           \* I; I C; I D; I D C

\* Every accumulator with the operands of ALUOperands for ADC and SBC with D
\* clear; the accumulators of ALUFewBytes with every operand for the four
\* instructions and both values of D.
ALUSetup ==
  /\ last.call = "NewCPU"
  /\ \E op \in ALUOpcodes, sr \in ALUStatus, a \in ALUBytes, lo \in ALUBytes :
       /\ \/ op \in {105, 233} /\ sr \in {36, 37} /\ lo \in ALUOperands
          \/ a \in ALUFewBytes
       /\ Load(49152, op, lo, Image(1, 49154), a, 0, 0, StackReset, sr)

\* The Clock call that fetches and executes the instruction.
ALUClock ==
  /\ last.call = "Setup"
  /\ DoClock

NextALU == ALUSetup \/ ALUClock

SpecALU == Init /\ [][NextALU]_vars

(***************************************************************************)
(* Calls and their returns (SpecSub): a JSR at pc whose target holds an    *)
(* RTS, or a BRK or an NMI whose handler is an RTI.  last also records the *)
(* CPU before the first instruction.                                       *)
(***************************************************************************)
MaxSubInstr == 2     \* instructions executed in one run of SpecSub

SubPCs == {254, 49152, 65533}       \* 0x00FE, 0xC000, 0xFFFD
SubTargetLo == {0, 240}
SubTargetHi == {2, 128}
SubRegA == {0, 195}
SubRegSP == {253, 1, 0}
SubRegSR == {36, 235}

\* Memory image 1 with JSR target at pc and RTS at the target.
ProgramSub(pc, lo, hi) ==
  LET bytes == Program(pc, 32, lo, hi) @@ (hi * 256 + lo :> 96)
  IN [a \in {b \in DOMAIN bytes : bytes[b] # Image(1, b)} |-> bytes[a]]

SubSetup ==
  /\ last.call = "NewCPU"
  /\ \E pc \in SubPCs, lo \in SubTargetLo, hi \in SubTargetHi :
       \E a \in SubRegA, sp \in SubRegSP, sr \in SubRegSR :
         cpu' = [A |-> a, X |-> 255, Y |-> 1, PC |-> pc, SP |-> sp, SR |-> sr,
                 cycles |-> 0, TotalCycles |-> 0, RAM |-> ProgramSub(pc, lo, hi)]
  /\ image' = 1
  /\ last' = [NoCall("Setup") EXCEPT !.pre = cpu]
  /\ UNCHANGED <<run, fetches, interrupts, calls, nes, ppu, ticks, cart>>

\* Memory image 1 with BRK at pc, the IRQ/BRK vector set to $8000, the NMI
\* vector set to $9000, and RTI at both.
ProgramTrap(pc) ==
  LET bytes == (pc :> 0) @@ (65534 :> 0) @@ (65535 :> 128) @@ (65530 :> 0)
               @@ (65531 :> 144) @@ (32768 :> 64) @@ (36864 :> 64)
  IN [a \in {b \in DOMAIN bytes : bytes[b] # Image(1, b)} |-> bytes[a]]

TrapSetup ==
  /\ last.call = "NewCPU"
  /\ \E pc \in SubPCs, a \in SubRegA, sp \in SubRegSP, sr \in SubRegSR :
       cpu' = [A |-> a, X |-> 255, Y |-> 1, PC |-> pc, SP |-> sp, SR |-> sr,
               cycles |-> 0, TotalCycles |-> 0, RAM |-> ProgramTrap(pc)]
  /\ image' = 1
  /\ last' = [NoCall("Setup") EXCEPT !.pre = cpu]
  /\ UNCHANGED <<run, fetches, interrupts, calls, nes, ppu, ticks, cart>>

\* One call of cpu.NMI(), before the first instruction.
SubNMI ==
  /\ last.call = "Setup"
  /\ cpu' = NMI(cpu)
  /\ last' = [call |-> "NMI", ret |-> FALSE, fetched |-> FALSE, opcode |-> 0,
              pageCrossed |-> FALSE, panic |-> FALSE, pre |-> cpu, first |-> cpu]
  /\ run' = [run EXCEPT !.live = FALSE]
  /\ interrupts' = interrupts + 1
  /\ calls' = calls + 1
  /\ UNCHANGED <<image, fetches, nes, ppu, ticks, cart>>

\* One call of cpu.Clock().
SubClock ==
  /\ last.call \in {"Setup", "Clock", "NMI"}
  /\ ~last.panic
  /\ cpu.cycles > 0 \/ fetches < MaxSubInstr
  /\ LET r == Clock(cpu)
     IN /\ cpu' = r.cpu
        /\ last' = [call |-> "Clock", ret |-> r.ret, fetched |-> r.fetched,
                    opcode |-> r.opcode, pageCrossed |-> r.pageCrossed,
                    panic |-> r.panic, pre |-> cpu,
                    first |-> IF last.call = "Setup" THEN cpu ELSE last.first]
        /\ run' = IF r.fetched
                    THEN [n |-> 1, added |-> r.cpu.TotalCycles - cpu.TotalCycles,
                          live |-> TRUE]
                    ELSE [run EXCEPT !.n = @ + 1]
        /\ fetches' = fetches + (IF cpu.cycles = 0 THEN 1 ELSE 0)
  /\ calls' = calls + 1
  /\ ticks' = [ticks EXCEPT !.cpu = @ + 1]
  /\ UNCHANGED <<image, interrupts, nes, ppu, cart>>

NextSub == SubSetup \/ TrapSetup \/ SubNMI \/ SubClock

SpecSub == Init /\ [][NextSub]_vars

(***************************************************************************)
(* One combined undocumented instruction in zero-page mode, over every     *)
(* operand address (and so every memory byte of the image) (SpecCombo).    *)
(***************************************************************************)
\* SLO, RLA, SRE, RRA, SAX, LAX, DCP, ISC zp
ComboOpcodes == {7, 39, 71, 103, 135, 167, 199, 231}
ComboRegX == {0, 165}
ComboStatus == {36, 37}

ComboSetup ==
  /\ last.call = "NewCPU"
  /\ \E op \in ComboOpcodes, sr \in ComboStatus, a \in ALUFewBytes, x \in ComboRegX,
        lo \in ALUBytes :
       Load(49152, op, lo, Image(1, 49154), a, x, 0, StackReset, sr)

NextCombo == ComboSetup \/ ALUClock

SpecCombo == Init /\ [][NextCombo]_vars

(***************************************************************************)
(* One load through a zero-page addressing mode, over every operand byte   *)
(* (SpecPtr).                                                              *)
(***************************************************************************)
\* LDA (zp,X), LDA (zp),Y, LDA zp,X, LDX zp,Y
PtrOpcodes == {161, 177, 181, 182}
PtrIndexes == {0, 1, 255}

PtrSetup ==
  /\ last.call = "NewCPU"
  /\ \E op \in PtrOpcodes, x \in PtrIndexes, y \in PtrIndexes, lo \in ALUBytes :
       Load(49152, op, lo, Image(1, 49154), 0, x, y, StackReset, 36)

NextPtr == PtrSetup \/ ALUClock

SpecPtr == Init /\ [][NextPtr]_vars

(***************************************************************************)
(* Properties.                                                             *)
(***************************************************************************)
Executed == last.call = "Clock" /\ last.fetched

\* The descriptor of the instruction the latest Clock call executed.
Descriptor == Instruction(last.opcode)

BranchOperations == {"bcc", "bcs", "beq", "bmi", "bne", "bpl", "bvc", "bvs"}

JumpOperations == BranchOperations \cup {"jmp", "jsr", "rts", "rti", "brk"}

\* The bytes an addressing mode consumes, opcode included.
ModeBytes(mode) ==
  CASE mode \in {AddressingModeImplied, AddressingModeAccumulator} -> 1
    [] mode \in {AddressingModeImmediate, AddressingModeZeroPage, AddressingModeZeroPageX,
                 AddressingModeZeroPageY, AddressingModeRelative,
                 AddressingModeIndirectX, AddressingModeIndirectY} -> 2
    [] mode \in {AddressingModeAbsolute, AddressingModeAbsoluteX,
                 AddressingModeAbsoluteY, AddressingModeIndirect} -> 3

\* Whether the indexed address of an instruction at c.PC lies in another page
\* than its base address (the operand word, or for (Indirect),Y the zero-page word).
PageCrossing(c, mode) ==
  LET b1 == Read(c, U16(c.PC + 1))
      b2 == Read(c, U16(c.PC + 2))
      base == IF mode = AddressingModeIndirectY
                THEN Read(c, b1) + 256 * Read(c, (b1 + 1) % 256)
                ELSE b1 + 256 * b2
      index == IF mode = AddressingModeAbsoluteX THEN c.X ELSE c.Y
  IN /\ mode \in {AddressingModeAbsoluteX, AddressingModeAbsoluteY, AddressingModeIndirectY}
     /\ (base \div 256) # (((base + index) % 65536) \div 256)

\* The stack cell the latest call wrote its third byte to (the status byte of
\* BRK, NMI and IRQ).
ThirdPush == Read(cpu, StackPage + ((last.pre.SP - 2) % 256))

HasBit(value, mask) == (value \div mask) % 2 = 1

\* C1: for every opcode, counting the consecutive Clock calls from the call that
\* fetches and executes it through the first call that returns true gives the
\* cycle count the instruction added to TotalCycles; the fetching call itself
\* returns false.
C1_CallsEqualCost ==
  /\ Executed => ~last.ret
  /\ (last.call = "Clock" /\ last.ret /\ run.live) => run.n = run.added

\* C2: an instruction execution adds to TotalCycles exactly the base cost of the
\* descriptor, plus 1 only when the descriptor's extra-cycle flag is set and the
\* address computation crossed a page, plus at most 2 only for a branch.
C2_CycleCost ==
  Executed =>
    LET extra == IF Descriptor.AdditionalCycles = 1
                      /\ PageCrossing(last.pre, Descriptor.AddressingMode)
                   THEN 1 ELSE 0
        rest == cpu.TotalCycles - last.pre.TotalCycles - Descriptor.Cycles - extra
    IN /\ rest \in 0..2
       /\ rest # 0 => Descriptor.operation \in BranchOperations

\* An instruction with the extra-cycle flag crossed a page and cost one more.
C2_Witness ==
  /\ Executed
  /\ Descriptor.AdditionalCycles = 1
  /\ PageCrossing(last.pre, Descriptor.AddressingMode)
  /\ cpu.TotalCycles = last.pre.TotalCycles + Descriptor.Cycles + 1

\* C3: a Clock call made while cycles > 0 only decrements cycles: the registers,
\* the status, every memory byte and TotalCycles are unchanged.
C3_StallOnlyDecrements ==
  (last.call = "Clock" /\ last.pre.cycles > 0) =>
    /\ cpu = [last.pre EXCEPT !.cycles = @ - 1]
    /\ ~last.fetched

\* A stall call on a CPU with modified memory and cycles accounted.
C3_Witness ==
  /\ last.call = "Clock"
  /\ last.pre.cycles > 1
  /\ last.pre.TotalCycles > 0
  /\ last.pre.RAM # EmptyRAM

\* C4: after Reset from any state A = X = Y = 0, SP = 0xFD, P = 0x24, PC is the
\* little-endian word at $FFFC/$FFFD, cycles = 0 and no memory byte was written.
C4_Reset ==
  last.call = "Reset" =>
    /\ cpu.A = 0 /\ cpu.X = 0 /\ cpu.Y = 0
    /\ cpu.SP = 253
    /\ cpu.SR = 36
    /\ cpu.PC = Read(last.pre, 65532) + 256 * Read(last.pre, 65533)
    /\ cpu.cycles = 0
    /\ cpu.RAM = last.pre.RAM

\* Reset in the middle of an instruction, with registers and the stack in use.
C4_Witness ==
  /\ last.call = "Reset"
  /\ last.pre.cycles > 0
  /\ last.pre.A # 0 /\ last.pre.X # 0 /\ last.pre.Y # 0
  /\ last.pre.SP # 253
  /\ last.pre.SR # 36
  /\ cpu.PC # 0

\* C5: TotalCycles never decreases over any sequence of Clock, NMI, IRQ and
\* Reset calls.
C5_TotalCyclesMonotonic ==
  last.call \in {"Clock", "NMI", "IRQ", "Reset"} =>
    cpu.TotalCycles >= last.pre.TotalCycles

\* C6: at every instruction boundary the live status register has U set and B
\* clear.
C6_LiveStatusBits ==
  cpu.cycles = 0 => HasBit(cpu.SR, StatusUnused) /\ ~HasBit(cpu.SR, StatusBreak)

\* C7: the status byte on the stack has B = 1 and U = 1 when pushed by BRK or
\* PHP, and B = 0 and U = 1 when pushed by NMI or IRQ; PHP leaves the live
\* status register unchanged.
C7_PushedStatus ==
  /\ (Executed /\ Descriptor.operation = "php") =>
       /\ HasBit(Read(cpu, StackPage + last.pre.SP), StatusBreak)
       /\ HasBit(Read(cpu, StackPage + last.pre.SP), StatusUnused)
       /\ cpu.SR = last.pre.SR
  /\ (Executed /\ Descriptor.operation = "brk") =>
       HasBit(ThirdPush, StatusBreak) /\ HasBit(ThirdPush, StatusUnused)
  /\ (last.call = "NMI" \/ (last.call = "IRQ" /\ ~HasBit(last.pre.SR, StatusInterrupt))) =>
       ~HasBit(ThirdPush, StatusBreak) /\ HasBit(ThirdPush, StatusUnused)

\* PHP executed with the break bit clear in the live register.
C7_Witness ==
  /\ Executed
  /\ Descriptor.operation = "php"
  /\ ~HasBit(last.pre.SR, StatusBreak)
  /\ cpu.SP = (last.pre.SP - 1) % 256

\* C8: the descriptor of every executed opcode has a size in {1, 2, 3} equal to
\* the bytes its addressing mode consumes, and a non-jump instruction advances
\* PC by that size.
C8_SizeMatchesMode ==
  Executed =>
    /\ Descriptor.Size \in {1, 2, 3}
    /\ Descriptor.Size = ModeBytes(Descriptor.AddressingMode)
    /\ Descriptor.operation \notin JumpOperations =>
         cpu.PC = U16(last.pre.PC + Descriptor.Size)

\* C9: for every opcode byte a Clock call decodes and executes without reaching
\* the 'Invalid addressing mode' panic.
C9_NoPanic ==
  /\ ~last.panic
  /\ (last.call = "Clock" /\ last.pre.cycles = 0) => last.fetched

\* The unimplemented opcode 0x8B was decoded and executed.
C9_Witness ==
  /\ Executed
  /\ last.opcode = 139
  /\ Descriptor.operation = "xxx"

\* C10: after N calls of the system Clock the PPU has been clocked N times and
\* the CPU floor(N/3) times.
C10_Cadence ==
  /\ ticks.ppu = nes.TotalCycles
  /\ ticks.cpu = nes.TotalCycles \div 3

\* C11: each CPU Clock call of the system Clock is preceded by exactly three
\* PPU Clock calls since the previous CPU Clock call (or since construction,
\* for the first one).
C11_ThreeDotsBeforeCPU ==
  ticks.cpu > 0 => ticks.gap = 3

\* C13: under continued system Clock ticks the vblank bit of the PPU status
\* register eventually becomes set, and if bit 7 of PPUCTRL is set and stays
\* set, an NMI is eventually delivered to the CPU.
C13_VblankEventually ==
  /\ <>(BitAnd(ppu.status, StatusVerticalBlank) # 0)
  /\ (<>[]getCtrl(ppu, CtrlGenerateNMI)) => <>(ticks.nmi > 0)

\* What the claims say an interrupt through the vector at `vector` does to the
\* CPU p, giving the CPU c: PC pushed high byte first, then the status byte with
\* B = 0, I = 1, U = 1; SP lowered by 3; I set; PC loaded from the vector; A, X
\* and Y kept.
InterruptEffect(p, c, vector) ==
  LET status == Read(c, StackPage + ((p.SP - 2) % 256))
  IN /\ Read(c, StackPage + p.SP) = p.PC \div 256
     /\ Read(c, StackPage + ((p.SP - 1) % 256)) = p.PC % 256
     /\ ~HasBit(status, StatusBreak)
     /\ HasBit(status, StatusInterrupt)
     /\ HasBit(status, StatusUnused)
     /\ c.SP = (p.SP - 3) % 256
     /\ HasBit(c.SR, StatusInterrupt)
     /\ c.PC = Read(c, vector) + 256 * Read(c, vector + 1)
     /\ c.A = p.A /\ c.X = p.X /\ c.Y = p.Y

\* C14: NMI, from any state and regardless of the I flag, stores the high byte
\* of PC at $0100+SP, the low byte at $0100+((SP-1) mod 256) and the status byte
\* with B = 0, I = 1, U = 1 at $0100+((SP-2) mod 256); afterwards SP is 3 lower
\* (mod 256), I is set, PC is the word at $FFFA/$FFFB and A, X, Y are unchanged.
C14_NMI ==
  last.call = "NMI" => InterruptEffect(last.pre, cpu, 65530)

\* NMI delivered with I set and a stack pointer that wraps below $0100.
C14_Witness ==
  /\ last.call = "NMI"
  /\ HasBit(last.pre.SR, StatusInterrupt)
  /\ last.pre.SP = 1
  /\ cpu.SP = 254
  /\ last.pre.PC \div 256 # last.pre.PC % 256
  /\ last.pre.A # 0
  /\ cpu.PC # last.pre.PC

\* C15: NMI adds 8 to TotalCycles and leaves cycles at 7 (8 minus 1).
C15_NMICost ==
  last.call = "NMI" =>
    /\ cpu.TotalCycles = last.pre.TotalCycles + 8
    /\ cpu.cycles = 7

\* C16: IRQ called while I is set changes nothing: registers, flags, memory,
\* cycles and TotalCycles are as before.  IRQ called while I is clear does what
\* NMI does, with PC loaded from the word at $FFFE/$FFFF and 7 cycles added to
\* TotalCycles.
C16_IRQ ==
  last.call = "IRQ" =>
    IF HasBit(last.pre.SR, StatusInterrupt)
      THEN cpu = last.pre
      ELSE /\ InterruptEffect(last.pre, cpu, 65534)
           /\ cpu.TotalCycles = last.pre.TotalCycles + 7

\* IRQ delivered with I clear and a stack pointer that wraps below $0100.
C16_Witness ==
  /\ last.call = "IRQ"
  /\ ~HasBit(last.pre.SR, StatusInterrupt)
  /\ last.pre.SP = 1
  /\ cpu.SP = 254
  /\ cpu.PC # last.pre.PC
  /\ cpu.RAM # last.pre.RAM

\* The addresses at which the memories of two CPUs differ.
Changed(p, c) ==
  {a \in DOMAIN p.RAM \cup DOMAIN c.RAM : Read(p, a) # Read(c, a)}

\* C17: push(v) followed by pop() returns v and pushWord(v) followed by
\* popWord() returns v, for every v and every SP; SP afterwards equals SP
\* before, also when it wraps through 0x00/0xFF, and every byte accessed lies
\* in page $0100-$01FF.
C17_StackRoundTrip ==
  /\ (last.call = "pop" /\ last.prev.call = "push") =>
       /\ last.value = last.prev.value
       /\ cpu.SP = last.prev.pre.SP
       /\ last.value = Read(last.pre, 256 + cpu.SP)
       /\ Changed(last.prev.pre, cpu) \subseteq 256..511
  /\ (last.call = "popWord" /\ last.prev.call = "pushWord") =>
       /\ last.value = last.prev.value
       /\ cpu.SP = last.prev.pre.SP
       /\ last.value = Read(last.pre, 256 + ((cpu.SP - 1) % 256))
                         + 256 * Read(last.pre, 256 + cpu.SP)
       /\ Changed(last.prev.pre, cpu) \subseteq 256..511

\* A word pushed at SP = 0x00 and popped again: SP wraps to 0xFF and back.
C17_Witness ==
  /\ last.call = "popWord"
  /\ last.prev.call = "pushWord"
  /\ last.prev.pre.SP = 0
  /\ last.pre.SP = 254
  /\ last.value = 4660
  /\ image = 1

\* The pointer operand of the instruction the latest Clock call executed.
Pointer == Read(last.pre, U16(last.pre.PC + 1)) + 256 * Read(last.pre, U16(last.pre.PC + 2))

\* C18: indirect JMP (0x6C) with pointer p sets PC to mem[p] | (mem[p+1] << 8)
\* when the low byte of p is not 0xFF, and to mem[p] | (mem[p & 0xFF00] << 8)
\* when it is 0xFF.
C18_IndirectJMP ==
  (Executed /\ last.opcode = 108) =>
    cpu.PC = IF Pointer % 256 # 255
               THEN Read(last.pre, Pointer) + 256 * Read(last.pre, U16(Pointer + 1))
               ELSE Read(last.pre, Pointer) + 256 * Read(last.pre, (Pointer \div 256) * 256)

\* JMP ($02FF) where the bytes at $0200 and $0300 differ.
C18_Witness ==
  /\ Executed
  /\ last.opcode = 108
  /\ Pointer = 767
  /\ Read(last.pre, 512) # Read(last.pre, 768)
  /\ cpu.PC \div 256 = Read(last.pre, 512)

\* Whether the flag a branch operation tests has the value it branches on.
FlagMatches(operation, sr) ==
  CASE operation = "bcc" -> ~HasBit(sr, StatusCarry)
    [] operation = "bcs" -> HasBit(sr, StatusCarry)
    [] operation = "beq" -> HasBit(sr, StatusZero)
    [] operation = "bne" -> ~HasBit(sr, StatusZero)
    [] operation = "bmi" -> HasBit(sr, StatusNegative)
    [] operation = "bpl" -> ~HasBit(sr, StatusNegative)
    [] operation = "bvc" -> ~HasBit(sr, StatusOverflow)
    [] operation = "bvs" -> HasBit(sr, StatusOverflow)

\* The signed offset of the branch the latest Clock call executed.
Offset ==
  LET b == Read(last.pre, U16(last.pre.PC + 1))
  IN IF b >= 128 THEN b - 256 ELSE b

\* The cycles the latest call added to TotalCycles.
Cost == cpu.TotalCycles - last.pre.TotalCycles

\* C19: a branch at address a with signed offset d: if the tested flag does not
\* match, PC becomes a+2 and the cost is 2 cycles; if it matches, PC becomes
\* (a+2+d) mod 65536 and the cost is 3 cycles when the target is in the page of
\* a+2 and 4 cycles when it is in another page.
C19_Branch ==
  (Executed /\ Descriptor.operation \in BranchOperations) =>
    LET next == (last.pre.PC + 2) % 65536
        target == (last.pre.PC + 2 + Offset) % 65536
    IN IF FlagMatches(Descriptor.operation, last.pre.SR)
         THEN /\ cpu.PC = target
              /\ Cost = IF target \div 256 = next \div 256 THEN 3 ELSE 4
         ELSE /\ cpu.PC = next
              /\ Cost = 2

\* A taken backward branch into the previous page, costing 4 cycles.
C19_Witness ==
  /\ Executed
  /\ Descriptor.operation \in BranchOperations
  /\ FlagMatches(Descriptor.operation, last.pre.SR)
  /\ Offset < 0
  /\ cpu.PC \div 256 # ((last.pre.PC + 2) % 65536) \div 256
  /\ Cost = 4

\* The example of C20: BEQ +2 at 0x00FE with Z = 1 and TotalCycles = 0 was executed.
BEQExample ==
  /\ Executed
  /\ last.pre.PC = 254
  /\ Read(last.pre, 254) = 240
  /\ Read(last.pre, 255) = 2
  /\ HasBit(last.pre.SR, StatusZero)
  /\ last.pre.TotalCycles = 0

\* C20 as stated: with PC = 0x00FE, bytes F0 02 (BEQ +2), Z = 1 and
\* TotalCycles = 0, one instruction leaves PC = 0x0102 and TotalCycles = 4.
C20_BEQFourCycles ==
  BEQExample => cpu.PC = 258 /\ cpu.TotalCycles = 4

\* C20 as amended: the same instruction leaves PC = 0x0102 and TotalCycles = 3
\* (2 base + 1 taken; the target is in the page of the next instruction, 0x0100).
C20_BEQThreeCycles ==
  BEQExample => cpu.PC = 258 /\ cpu.TotalCycles = 3

\* The example was executed.
C20_Witness ==
  /\ BEQExample
  /\ cpu.PC = 258
  /\ cpu.cycles = 2

\* A byte as a two's complement number.
Signed(v) == IF v >= 128 THEN v - 256 ELSE v

\* The operand byte of the instruction the latest Clock call executed: the
\* immediate byte, or the zero-page cell it names.
OperandByte ==
  LET b == Read(last.pre, U16(last.pre.PC + 1))
  IN IF Descriptor.AddressingMode = AddressingModeImmediate THEN b ELSE Read(last.pre, b)

CarryIn == IF HasBit(last.pre.SR, StatusCarry) THEN 1 ELSE 0

\* Whether the CPU c has the accumulator and the flags C, V, Z, N of the sum
\* a + m + carry.
IsSum(c, a, m, carry) ==
  LET r == a + m + carry
  IN /\ c.A = r % 256
     /\ HasBit(c.SR, StatusCarry) <=> r > 255
     /\ HasBit(c.SR, StatusOverflow) <=>
          BitAnd(BitAnd(255 - BitXor(a, m), BitXor(a, r % 256)), 128) # 0
     /\ HasBit(c.SR, StatusOverflow) <=> (Signed(a) + Signed(m) + carry) \notin -128..127
     /\ HasBit(c.SR, StatusZero) <=> r % 256 = 0
     /\ HasBit(c.SR, StatusNegative) <=> r % 256 >= 128

\* C21: ADC, for all 8-bit A and M and carry C: with r = A + M + C, afterwards
\* A = r mod 256, C = (r > 255), V = (((~(A^M)) & (A^r) & 0x80) != 0) with the
\* old A, which is true exactly when the signed sum lies outside -128..127,
\* Z = (new A == 0) and N = bit 7 of new A.
C21_ADC ==
  (Executed /\ Descriptor.operation = "adc") =>
    IsSum(cpu, last.pre.A, OperandByte, CarryIn)

\* The example of the spec: A = 0x50, C = 0, ADC #$50 gives A = 0xA0 with V and
\* N set, C and Z clear.
C21_Witness ==
  /\ Executed
  /\ Descriptor.operation = "adc"
  /\ last.pre.A = 80 /\ OperandByte = 80 /\ CarryIn = 0
  /\ cpu.A = 160
  /\ HasBit(cpu.SR, StatusOverflow) /\ HasBit(cpu.SR, StatusNegative)
  /\ ~HasBit(cpu.SR, StatusCarry) /\ ~HasBit(cpu.SR, StatusZero)

\* C22: SBC, for all 8-bit A and M and carry C, produces the A, C, V, Z and N
\* of ADC applied to M XOR 0xFF: new A = (A - M - (1 - C)) mod 256, C is set
\* exactly when A >= M + (1 - C), and V exactly when the signed result of
\* A - M - (1 - C) lies outside -128..127.
C22_SBC ==
  (Executed /\ Descriptor.operation = "sbc") =>
    LET a == last.pre.A
        m == OperandByte
        borrow == 1 - CarryIn
    IN /\ IsSum(cpu, a, BitXor(m, 255), CarryIn)
       /\ cpu.A = (a - m - borrow) % 256
       /\ HasBit(cpu.SR, StatusCarry) <=> a >= m + borrow
       /\ HasBit(cpu.SR, StatusOverflow) <=>
            (Signed(a) - Signed(m) - borrow) \notin -128..127

\* SBC with a borrow out and a signed overflow: 0x80 - 0x01 with C = 0.
C22_Witness ==
  /\ Executed
  /\ Descriptor.operation = "sbc"
  /\ last.pre.A = 128 /\ OperandByte = 1 /\ CarryIn = 0
  /\ cpu.A = 126
  /\ HasBit(cpu.SR, StatusOverflow)
  /\ HasBit(cpu.SR, StatusCarry)

\* The flags an addition sets.
ArithmeticFlags == {StatusCarry, StatusOverflow, StatusZero, StatusNegative}

\* The CPU before the latest call with the D bit inverted.
Twin == [last.pre EXCEPT !.SR = BitXor(@, StatusDecimal)]

\* C23: for two CPU states that differ only in the D bit, the same ADC, SBC,
\* RRA or ISC yields identical A, C, V, Z, N and memory, and each state keeps
\* its own D bit.
C23_DecimalIgnored ==
  (Executed /\ Descriptor.operation \in {"adc", "sbc", "rra", "isc"}) =>
    LET after == Clock(Twin).cpu
    IN /\ after.A = cpu.A
       /\ \A f \in ArithmeticFlags : HasBit(after.SR, f) <=> HasBit(cpu.SR, f)
       /\ after.RAM = cpu.RAM
       /\ HasBit(cpu.SR, StatusDecimal) <=> HasBit(last.pre.SR, StatusDecimal)
       /\ HasBit(after.SR, StatusDecimal) <=> ~HasBit(last.pre.SR, StatusDecimal)

\* ISC executed with D set: memory and the accumulator changed.
C23_Witness ==
  /\ Executed
  /\ Descriptor.operation = "isc"
  /\ HasBit(last.pre.SR, StatusDecimal)
  /\ cpu.RAM # last.pre.RAM
  /\ cpu.A # last.pre.A
  /\ ~HasBit(Twin.SR, StatusDecimal)

\* Bus reads and writes in the three address ranges.
RAMAccess == last.call \in {"Read", "Write"} /\ last.addr <= 8191
PPUAccess == last.call \in {"Read", "Write"} /\ last.addr >= 8192 /\ last.addr <= 16383
CartridgeAccess == last.call \in {"Read", "Write"} /\ last.addr >= 16384

\* C24: a bus access at addr <= $1FFF reads or writes RAM cell addr & 0x07FF (a
\* written value is read back at every mirror below $2000, no other cell
\* changes, no PPU state changes, and a read changes nothing); an access in
\* $2000-$3FFF is the PPU's read or write of register addr & 0x0007; an access
\* at $4000-$FFFF is the cartridge's PRG read or write.
C24_BusDecoding ==
  /\ RAMAccess =>
       /\ ~last.fault
       /\ last.post.ppu = last.pre.ppu
       /\ last.call = "Read" =>
            /\ last.value = Cell(last.pre.nes.ram, BitAnd(last.addr, 2047))
            /\ last.post.nes = last.pre.nes
       /\ last.call = "Write" =>
            /\ last.post.nes =
                 [last.pre.nes EXCEPT !.ram = Store(@, BitAnd(last.addr, 2047), last.value)]
            /\ \A k \in 0..3 :
                 NESRead(last.post.nes, last.post.ppu,
                         BitAnd(last.addr, 2047) + k * 2048).value = last.value
  /\ PPUAccess =>
       /\ ~last.fault
       /\ last.post.nes = last.pre.nes
       /\ last.call = "Read" =>
            /\ last.post.ppu = PPURead(last.pre.ppu, BitAnd(last.addr, 7)).ppu
            /\ last.value = PPURead(last.pre.ppu, BitAnd(last.addr, 7)).value
       /\ last.call = "Write" =>
            last.post.ppu = PPUWrite(last.pre.ppu, BitAnd(last.addr, 7), last.value)
  /\ CartridgeAccess =>
       /\ ~last.fault
       /\ last.post.ppu = last.pre.ppu
       /\ last.call = "Read" => last.value = PGRRead(cart, last.addr).value
       /\ last.call = "Write" => cart = PRGWrite(cart, last.addr, last.value)

StatusRead == last.call = "PPURead" /\ last.addr = 2
DataRead == last.call = "PPURead" /\ last.addr = 7
AddrWrite == last.call = "PPUWrite" /\ last.addr = 6

\* C25: a read of PPUSTATUS returns (status & 0xE0) | (data_buffer & 0x1F) of the
\* state before the read; afterwards the vblank bit of status is clear and the
\* address latch is false, and ctrl, mask, the memory address, the data buffer
\* and PPU memory are as before.
C25_StatusRead ==
  StatusRead =>
    /\ last.value = (last.pre.status \div 32) * 32 + (last.pre.dataBuffer % 32)
    /\ ~HasBit(ppu.status, StatusVerticalBlank)
    /\ ~ppu.addressLatch
    /\ ppu.ctrl = last.pre.ctrl
    /\ ppu.mask = last.pre.mask
    /\ ppu.memoryAddress = last.pre.memoryAddress
    /\ ppu.dataBuffer = last.pre.dataBuffer
    /\ ppu.nameTable = last.pre.nameTable
    /\ ppu.paletteTable = last.pre.paletteTable

\* A PPUSTATUS read made with the latch set and a data buffer that has bits
\* above the low five.
C25_Witness ==
  /\ StatusRead
  /\ last.pre.addressLatch
  /\ last.pre.dataBuffer = 63
  /\ last.value = 31
  /\ last.pre.paletteTable # EmptyRAM

\* C26: counting the PPUADDR writes since the latest PPUSTATUS read (or since
\* construction), an odd-numbered write replaces only the high byte of the PPU
\* memory address and an even-numbered write only the low byte; the latch
\* toggles on each PPUADDR write and on no other register write.
C26_AddressLatch ==
  /\ AddrWrite =>
       /\ ppu.memoryAddress =
            IF last.count % 2 = 1
              THEN last.value * 256 + (last.pre.memoryAddress % 256)
              ELSE (last.pre.memoryAddress \div 256) * 256 + last.value
       /\ ppu.addressLatch = ~last.pre.addressLatch
       /\ ppu.addressLatch = (last.count % 2 = 1)
  /\ last.call = "PPUWrite" /\ last.addr # 6 =>
       ppu.addressLatch = last.pre.addressLatch

\* The third PPUADDR write in a row replaces the high byte of an address whose
\* two bytes were both set.
C26_Witness ==
  /\ AddrWrite
  /\ last.count = 3
  /\ last.pre.memoryAddress = 63 * 256 + 32
  /\ ppu.memoryAddress = 32 * 256 + 32

\* The first PPUADDR write after a PPUSTATUS read that followed a single PPUADDR
\* write is a high-byte write again.
C26_WitnessReset ==
  /\ AddrWrite
  /\ last.count = 1
  /\ last.pre.memoryAddress = 63 * 256
  /\ ~last.pre.addressLatch
  /\ ppu.memoryAddress = 32 * 256

\* C27: a read of PPUDATA with PPU memory address a returns the previous data
\* buffer and reloads the buffer with the byte at a when a is below $3F00,
\* returns the byte at a when a is in $3F00-$3FFF, and leaves the address at a+1.
C27_DataRead ==
  DataRead /\ last.pre.memoryAddress <= 16383 =>
    /\ last.pre.memoryAddress < 16128 =>
         /\ last.value = last.pre.dataBuffer
         /\ ppu.dataBuffer = readMemory(last.pre, last.pre.memoryAddress)
    /\ last.pre.memoryAddress >= 16128 =>
         last.value = readMemory(last.pre, last.pre.memoryAddress)
    /\ ppu.memoryAddress = last.pre.memoryAddress + 1

\* C28: for every PRG length a header can declare (size byte times 16384) and
\* every addr in $8000-$FFFF, the mapper's PRG read returns
\* prg[(addr - 0x8000) mod prg_len] without faulting; below $8000 it returns 0.
C28_PRGRead ==
  last.call = "PRGRead" /\ last.pre.pgrBanks > 0 =>
    /\ ~last.fault
    /\ last.value =
         IF last.addr >= 32768
           THEN PgrByte(last.pre, (last.addr - 32768) % (last.pre.pgrBanks * 16384))
           ELSE 0

SameRegisters(c, d) == c.A = d.A /\ c.X = d.X /\ c.Y = d.Y /\ c.SR = d.SR

\* The RTS executed as the second instruction, right after the JSR.
Returned == Executed /\ last.opcode = 96 /\ fetches = 2

\* C30: JSR at address a pushes the word a+2, high byte first, and sets PC to
\* its target; the RTS executed with the SP the JSR left sets PC to a+3 and SP
\* to its value before the JSR; neither changes A, X, Y or a status flag.
C30_JSRRTS ==
  /\ Executed /\ last.opcode = 32 =>
       /\ cpu.PC = ReadWord(last.pre, U16(last.pre.PC + 1))
       /\ cpu.SP = U8(last.pre.SP - 2)
       /\ Read(cpu, StackPage + last.pre.SP) = U16(last.pre.PC + 2) \div 256
       /\ Read(cpu, StackPage + U8(last.pre.SP - 1)) = U16(last.pre.PC + 2) % 256
       /\ SameRegisters(cpu, last.pre)
  /\ Returned =>
       /\ last.pre.SP = U8(last.first.SP - 2)
       /\ cpu.PC = U16(last.first.PC + 3)
       /\ cpu.SP = last.first.SP
       /\ SameRegisters(cpu, last.first)

\* A return to $C003 from a subroutine called at $C000, with the flags N V D Z C
\* set and A non-zero.
C30_Witness ==
  /\ Returned
  /\ last.first.PC = 49152
  /\ cpu.PC = 49155
  /\ last.pre.PC = 33008
  /\ cpu.SP = 253
  /\ cpu.A = 195
  /\ cpu.SR = 235

\* A return across the wrap of the stack pointer and of the program counter.
C30_WitnessWrap ==
  /\ Returned
  /\ last.first.PC = 65533
  /\ cpu.PC = 0
  /\ last.first.SP = 0
  /\ last.pre.SP = 254
  /\ cpu.SP = 0

\* The arguments the latest executed instruction was called with.
Args ==
  [addrMode |-> Descriptor.AddressingMode,
   address |-> fetchOperandAddress(last.pre, Descriptor.AddressingMode).address]

\* The CPU before the latest call after the two documented operations that a
\* combined operation is named after, applied to the same arguments.
TwoSteps(name) ==
  CASE name = "slo" -> ora(asl(last.pre, Args), Args)
    [] name = "rla" -> and(rol(last.pre, Args), Args)
    [] name = "sre" -> eor(lsr(last.pre, Args), Args)
    [] name = "rra" -> adc(ror(last.pre, Args), Args)
    [] name = "dcp" -> cmp(dec(last.pre, Args), Args)
    [] name = "isc" -> sbc(inc(last.pre, Args), Args)
    [] name = "lax" -> tax(lda(last.pre, Args), Args)
    [] name = "sax" -> Write(last.pre, Args.address, BitAnd(last.pre.A, last.pre.X))

CombinedOperations == {"slo", "rla", "sre", "rra", "dcp", "isc", "lax", "sax"}

\* C31: SLO, RLA, SRE, RRA, DCP, ISC and LAX leave the A, X, flags and memory
\* that their two documented operations, applied one after the other to the
\* same effective address, leave; SAX stores A AND X and changes no flag.
C31_Combined ==
  (Executed /\ Descriptor.operation \in CombinedOperations) =>
    LET two == TwoSteps(Descriptor.operation)
    IN /\ cpu.A = two.A
       /\ cpu.X = two.X
       /\ cpu.Y = two.Y
       /\ cpu.SP = two.SP
       /\ cpu.SR = two.SR
       /\ cpu.RAM = two.RAM
       /\ Descriptor.operation = "sax" => cpu.SR = last.pre.SR

\* RLA with the carry set on a memory byte with bit 7 clear: the carry enters
\* bit 0 of the memory byte and of the accumulator, and leaves clear.
C31_Witness ==
  /\ Executed
  /\ Descriptor.operation = "rla"
  /\ HasBit(last.pre.SR, StatusCarry)
  /\ ~HasBit(cpu.SR, StatusCarry)
  /\ last.pre.A = 255
  /\ cpu.A % 2 = 1
  /\ cpu.RAM # last.pre.RAM

\* The RTI executed as the second instruction, right after the BRK.
Resumed ==
  /\ Executed /\ last.opcode = 64 /\ fetches = 2 /\ interrupts = 0
  /\ Read(last.first, last.first.PC) = 0

\* C32: BRK at address a pushes the word a+1, then the status byte with B and U
\* set, then sets the live I flag and loads PC from the word at $FFFE/$FFFF; the
\* live B bit stays clear and SP is 3 lower; the RTI that follows resumes at a+1
\* with the flags that were live before the BRK.
C32_BRKRTI ==
  /\ Executed /\ last.opcode = 0 =>
       /\ Read(cpu, StackPage + last.pre.SP) = U16(last.pre.PC + 1) \div 256
       /\ Read(cpu, StackPage + U8(last.pre.SP - 1)) = U16(last.pre.PC + 1) % 256
       /\ Read(cpu, StackPage + U8(last.pre.SP - 2)) =
            BitOr(last.pre.SR, StatusBreak + StatusUnused)
       /\ cpu.SR = BitOr(last.pre.SR, StatusInterrupt)
       /\ ~HasBit(cpu.SR, StatusBreak)
       /\ cpu.PC = Read(cpu, 65534) + 256 * Read(cpu, 65535)
       /\ cpu.SP = U8(last.pre.SP - 3)
  /\ Resumed =>
       /\ last.pre.SP = U8(last.first.SP - 3)
       /\ cpu.PC = U16(last.first.PC + 1)
       /\ cpu.SP = last.first.SP
       /\ cpu.SR = last.first.SR

\* A return from the BRK at $C000, executed with I clear, to $C001 with I clear
\* again.
C32_Witness ==
  /\ Resumed
  /\ last.first.PC = 49152
  /\ last.pre.PC = 32768
  /\ HasBit(last.pre.SR, StatusInterrupt)
  /\ cpu.PC = 49153
  /\ cpu.SR = 235
  /\ cpu.SP = 253

\* The RTI executed as the first instruction after an NMI.
NMIReturned == Executed /\ last.opcode = 64 /\ fetches = 1 /\ interrupts = 1

\* C35: an NMI taken with PC = p, SP = s and status P, followed by the RTI
\* executed with the stack pointer the NMI left, resumes with PC = p, SP = s and
\* the status register equal to P, the I flag included.
C35_NMIRoundTrip ==
  NMIReturned =>
    /\ last.pre.SP = U8(last.first.SP - 3)
    /\ cpu.PC = last.first.PC
    /\ cpu.SP = last.first.SP
    /\ cpu.SR = last.first.SR

\* C34: at every instruction boundary (cycles = 0) TotalCycles equals the number
\* of Clock calls made on the CPU since Reset, whatever the interleaving of
\* Clock calls with NMI and IRQ deliveries.
C34_CycleTotals ==
  (cpu.cycles = 0 /\ last.call \in {"Clock", "NMI", "IRQ", "Reset"}) =>
    cpu.TotalCycles = ticks.cpu

\* The operand byte that follows the opcode of the latest executed instruction.
Operand == Read(last.pre, U16(last.pre.PC + 1))

\* The word whose two bytes are in the zero page at pp and (pp + 1) mod 256.
ZeroPageWord(pp) == Read(last.pre, pp) + 256 * Read(last.pre, (pp + 1) % 256)

ZeroPageModes ==
  {AddressingModeZeroPageX, AddressingModeZeroPageY, AddressingModeIndirectX,
   AddressingModeIndirectY}

\* The effective address the claim gives for the four zero-page modes.
Effective ==
  CASE Descriptor.AddressingMode = AddressingModeZeroPageX ->
         (Operand + last.pre.X) % 256
    [] Descriptor.AddressingMode = AddressingModeZeroPageY ->
         (Operand + last.pre.Y) % 256
    [] Descriptor.AddressingMode = AddressingModeIndirectX ->
         ZeroPageWord((Operand + last.pre.X) % 256)
    [] Descriptor.AddressingMode = AddressingModeIndirectY ->
         (ZeroPageWord(Operand) + last.pre.Y) % 65536

\* C36: for (Indirect,X) the pointer is (operand + X) mod 256 and for
\* (Indirect),Y the operand; the target's low byte is read at $00pp and its high
\* byte at $00((pp+1) mod 256); for (Indirect),Y the effective address is that
\* word plus Y mod 65536 and page_crossed is true exactly when its high byte
\* differs from the word's; Zero Page,X and Zero Page,Y addresses are in
\* $0000-$00FF.
C36_ZeroPagePointers ==
  (Executed /\ Descriptor.AddressingMode \in ZeroPageModes) =>
    /\ Args.address = Effective
    /\ Descriptor.AddressingMode \in {AddressingModeZeroPageX, AddressingModeZeroPageY}
         => Args.address \in 0..255
    /\ Descriptor.AddressingMode = AddressingModeIndirectY =>
         (last.pageCrossed <=> Effective \div 256 # ZeroPageWord(Operand) \div 256)
    /\ Descriptor.AddressingMode # AddressingModeIndirectY => ~last.pageCrossed
    /\ Descriptor.operation = "lda" =>
         /\ cpu.A = Read(last.pre, Effective)
         /\ Descriptor.AddressingMode = AddressingModeIndirectY =>
              run.added = 5 + (IF last.pageCrossed THEN 1 ELSE 0)
    /\ Descriptor.operation = "ldx" => cpu.X = Read(last.pre, Effective)

\* LDA ($FF),Y with Y = $FF: the pointer's high byte comes from $0000, the word
\* is $0704 and the effective address $0803 is on the next page.
C36_Witness ==
  /\ Executed
  /\ Descriptor.AddressingMode = AddressingModeIndirectY
  /\ Operand = 255
  /\ last.pre.Y = 255
  /\ Args.address = 2051
  /\ last.pageCrossed
  /\ cpu.A = Read(last.pre, 2051)

\* LDA ($FF,X) with X = 0: the pointer is $FF and its high byte is at $0000.
C36_WitnessX ==
  /\ Executed
  /\ Descriptor.AddressingMode = AddressingModeIndirectX
  /\ Operand = 255
  /\ last.pre.X = 0
  /\ Args.address = 1796

\* PPUADDR has just been latched, by the second write of a pair, to a name-table
\* address.
Latched ==
  /\ AddrWrite
  /\ last.count % 2 = 0
  /\ ppu.memoryAddress >= 8192
  /\ ppu.memoryAddress <= 16127

\* The two PPUADDR writes that latch the address a.
Relatch(p, a) == PPUWrite(PPUWrite(p, 6, a \div 256), 6, a % 256)

\* C37: after PPUADDR is latched to a name-table address a and v is written to
\* PPUDATA, the PPU memory address is a+1 and name-table cell a mod 2048 holds
\* v; after PPUADDR is latched to a again, the first PPUDATA read returns the
\* stale buffer, the second returns v, and the address is then a+2; every
\* PPUDATA access moves the address by exactly 1.
C37_DataSequence ==
  /\ Latched =>
       \A v \in PPUBytes :
         LET a == ppu.memoryAddress
             written == PPUWrite(ppu, 7, v)
             again == Relatch(written, a)
             first == PPURead(again, 7)
             second == PPURead(first.ppu, 7)
         IN /\ written.memoryAddress = a + 1
            /\ Cell(written.nameTable, a % 2048) = v
            /\ again.memoryAddress = a
            /\ first.value = ppu.dataBuffer
            /\ second.value = v
            /\ second.ppu.memoryAddress = a + 2
  /\ last.call \in {"PPURead", "PPUWrite"} /\ last.addr = 7 =>
       ppu.memoryAddress = (last.pre.memoryAddress + 1) % 65536

\* PPUADDR latched to $3EFF, a mirror of cell $6FF, with a byte in the data
\* buffer that a later read would return as stale.
C37_Witness ==
  /\ Latched
  /\ ppu.memoryAddress = 16127
  /\ ppu.dataBuffer # 0
  /\ PPURead(Relatch(PPUWrite(ppu, 7, 63), 16127), 7).value = ppu.dataBuffer
  /\ PPURead(Relatch(PPUWrite(ppu, 7, 63), 16127), 7).ppu.dataBuffer = 63

\* A PPUDATA write made through the register after a latched pair: the cell is
\* written and the address has moved by one.
C37_WitnessWrite ==
  /\ last.call = "PPUWrite" /\ last.addr = 7
  /\ ~last.pre.addressLatch
  /\ last.pre.memoryAddress = 15934
  /\ Cell(ppu.nameTable, 15934 % 2048) = 63
  /\ ppu.memoryAddress = 15935

\* C38: AXS (opcode 0xCB), for all A, X and immediate operand M, sets X to
\* ((A AND X) - M) mod 256, sets the carry exactly when (A AND X) >= M, sets Z
\* and N from the new X, and leaves A unchanged.
C38_AXS ==
  (Executed /\ last.opcode = 203) =>
    LET both == BitAnd(last.pre.A, last.pre.X)
    IN /\ cpu.X = (both - OperandByte) % 256
       /\ HasBit(cpu.SR, StatusCarry) <=> both >= OperandByte
       /\ HasBit(cpu.SR, StatusZero) <=> cpu.X = 0
       /\ HasBit(cpu.SR, StatusNegative) <=> cpu.X >= 128
       /\ cpu.A = last.pre.A

\* C39: ARR (opcode 0x6B), for all A, immediate M and carry C, sets A to
\* ((A AND M) >> 1) | (C << 7), the old carry entering bit 7 as for ROR on the
\* accumulator; Z and N reflect the new A; the carry is then bit 5 of the new A
\* and V is bit 5 XOR bit 4 of the new A.
C39_ARR ==
  (Executed /\ last.opcode = 107) =>
    LET both == BitAnd(last.pre.A, OperandByte)
    IN /\ cpu.A = BitOr(both \div 2, CarryIn * 128)
       /\ HasBit(cpu.SR, StatusZero) <=> cpu.A = 0
       /\ HasBit(cpu.SR, StatusNegative) <=> cpu.A >= 128
       /\ HasBit(cpu.SR, StatusCarry) <=> HasBit(cpu.A, 32)
       /\ HasBit(cpu.SR, StatusOverflow) <=> (HasBit(cpu.A, 32) # HasBit(cpu.A, 16))

\* The flags a transfer may set, as a mask.
TransferFlags == StatusZero + StatusNegative

\* C40: TXS sets SP to X and changes no status flag; TSX sets X to SP and sets
\* Z and N from the new X, not from Y or A; neither changes memory, A or Y.
C40_StackTransfers ==
  /\ (Executed /\ Descriptor.operation = "txs") =>
       /\ cpu.SP = last.pre.X
       /\ cpu.SR = last.pre.SR
       /\ cpu.X = last.pre.X
  /\ (Executed /\ Descriptor.operation = "tsx") =>
       /\ cpu.X = last.pre.SP
       /\ cpu.SP = last.pre.SP
       /\ HasBit(cpu.SR, StatusZero) <=> cpu.X = 0
       /\ HasBit(cpu.SR, StatusNegative) <=> cpu.X >= 128
       /\ BitAnd(cpu.SR, 255 - TransferFlags) = BitAnd(last.pre.SR, 255 - TransferFlags)
  /\ (Executed /\ Descriptor.operation \in {"txs", "tsx"}) =>
       /\ cpu.RAM = last.pre.RAM
       /\ cpu.A = last.pre.A
       /\ cpu.Y = last.pre.Y

\* TSX with SP = $FD, Y = 1 and N clear before: N is set from the new X, where
\* Y would have left it clear.
C40_Witness ==
  /\ Executed
  /\ Descriptor.operation = "tsx"
  /\ last.pre.SP = 253 /\ last.pre.Y = 1 /\ last.pre.X = 0
  /\ ~HasBit(last.pre.SR, StatusNegative)
  /\ cpu.X = 253
  /\ HasBit(cpu.SR, StatusNegative)

\* TXS with X = 0 and Z clear before: SP is 0 and Z stays clear.
C40_WitnessTXS ==
  /\ Executed
  /\ Descriptor.operation = "txs"
  /\ last.pre.X = 0 /\ last.pre.SP = 253
  /\ ~HasBit(last.pre.SR, StatusZero)
  /\ cpu.SP = 0
  /\ cpu.SR = last.pre.SR

====
